---- MODULE Spec2Model ----
(***************************************************************************)
(* Burrow: Nostr/MLS group messaging.  A state-machine model of            *)
(*   - the CLI access-control evaluator, its audit log and the CLI         *)
(*     commands that consult it (daemon, listen, send, typing, acl ...),   *)
(*   - the commit / publish / merge handlers of the MLS engine wrappers    *)
(*     (app API, mls-engine daemon, CLI invite).                           *)
(* The MLS library (MDK) and the relay client (nostr-sdk) are external;    *)
(* their results enter the handlers as nondeterministic inputs.            *)
(***************************************************************************)
EXTENDS Integers, Sequences, FiniteSets, TLC

\* ------------------------------------------------------------------ bounds
\* cap on the length of the audit log (audit/<date>.jsonl)
MaxAudit == 2
\* cap on the length of the daemon's JSONL log
MaxDaemonLog == 3
\* cap on the number of access-control decisions counted
MaxDecisions == 2
\* cap on the number of commit (evolution) events created
MaxCommits == 2
\* cap on the MLS epoch of a group
MaxEpoch == 2
\* cap on the length of the daemon's JSONL log while it handles gift wraps
MaxWelcomeLog == 7
\* cap on the length of the daemon's JSONL log at which the daemon is started again
MaxStartLog == 4
\* cap on the number of events one caller of process_message handles
MaxProcessed == 2
\* the values of --limit tried by the read command
MaxLimit == 2
\* the latest clock reading, in seconds
MaxNow == 90
\* cap on the number of signaling events built
MaxSignals == 2
\* cap on the number of signaling events received
MaxReceived == 2
\* cap on the number of distinct media downloads handed to decryption
MaxHanded == 2
\* the number of key package events a user has on the relays
MaxKeyPackages == 2
\* the number of stdin lines the burrow-mls daemon reads in one run
MaxLines == 3
\* the number of lines the daemon appends to its log
MaxLogLines == 2
\* the number of times the log is emptied
MaxTruncations == 1
\* the number of times the bridge is stopped
MaxRestarts == 1
\* the number of runs of further events the listen command sees
MaxBatches == 2
\* the number of sync_welcomes calls
MaxSyncs == 2
\* the last second of the call clock
MaxCallNow == 2
\* the number of initialisations and destructions of the app state
MaxStateOps == 4

\* ------------------------------------------------------------ value domains
\* hex public keys
Keys == {"aa", "bb", "cc"}
\* the identity read from the secret key file by send / typing / daemon
Identity == "bb"
\* MLS group ids known to the MLS store
Groups == {"g1", "g2"}
\* StoredGroup.nostr_group_id_hex of a group
NostrGroupId(g) ==
    CASE g = "g1" -> "n1"
      [] g = "g2" -> "n2"
      [] OTHER -> "n3"
\* the NIP-59 gift wraps (kind 1059) addressed to the identity that carry a
\* kind 444 welcome, by wrapper event id; both invite to the group g3
Wrappers == {"gw1", "gw2"}
WelcomeGroup(w) == "g3"
\* the application messages that exist on the relays: the inner event id fixes
\* author, group, kind and content (it is the hash of the rumor)
Messages ==
    {[id |-> "m1", pubkey |-> "cc", group |-> "g1", kind |-> 1, content |-> "hello",
      created_at |-> 20],
     [id |-> "m2", pubkey |-> "aa", group |-> "g2", kind |-> 1, content |-> "hi",
      created_at |-> 10],
     [id |-> "m3", pubkey |-> "cc", group |-> "g2", kind |-> 10000, content |-> "typing",
      created_at |-> 10]}
\* the place of an inner event id in the ascending order of the ids
IdRank(id) == CASE id = "m1" -> 1 [] id = "m2" -> 2 [] OTHER -> 3
\* the id of the kind 445 event that wraps an inner message
WrapperId(m) == <<"w", m.id>>
\* the members of the one MLS group of the engine model: A runs the app
\* (app/rust API), B runs the mls-engine daemon
Members == {"A", "B"}
\* the relays the app's client is connected to
Relays == {"r1", "r2"}
\* an environment variable that is not set
Unset == "<unset>"
\* Option::None
NoneV == "<none>"
\* listen.rs: the dedup set is cleared when it grows past this size
SeenLimit == 10000
\* the application kind of a typing indicator
TYPING_INDICATOR_KIND == 10000
\* call signaling kinds and the lifetime of a signaling event, in seconds
KIND_CALL_OFFER == 25050
KIND_CALL_END == 25053
KIND_CALL_STATE_UPDATE == 25054
SignalingTtl == 60
\* media references: bytes of the original hash and of the nonce
HashLen == 32
NonceLen == 12
\* seconds between two readings of the clock
TickSecs == 30

RangeOf(s) == {s[i] : i \in 1..Len(s)}

\* ------------------------------------------------------------------- state
VARIABLES
    acl_procs,  \* two acl command processes: position, command, argument, loaded AclConfig
    bridge,  \* the bridge and the daemon log it follows: the bytes of daemon.jsonl, .bridge-offset, the process (running or not, its offset, the lines and offset of the iteration in progress), the agent requests issued per line, and the bytes it has read and accounted for in the saved offset
    cli_mdk,  \* the MLS engine instances of the CLI: the groups recorded in the file store by group create, and for each instance a command opened for a group whether it held the MLS state of that group
    app_welcomes,  \* the app: the wrapper ids its MDK store holds a welcome for, and of the last sync_welcomes call the gift wraps fetched, the value returned and how many welcomes the store did not hold before
    call_sessions,  \* the call session store: the clock, per call id the session (state, started_at, ended_at as Option: {} or {t}) with what states update_session_state has put it in since it was created, and the result of the last call
    app_state,  \* the app's global state: the Option<BurrowState> behind the lock (the keys it holds, or none), the initialisations and destructions made so far, and the result of the last with_state / with_state_mut call since
    engine_daemon,  \* the burrow-mls daemon process: its in-memory MDK, its state directory, the stdin lines it read and the stdout lines it wrote
    mls_db,          \* mls.sqlite of the data directory, and how it was opened
    acl_file,        \* access-control.json (AclConfig)
    env_owner_hex,   \* BURROW_OWNER_HEX
    env_owner_npub,  \* BURROW_OWNER_NPUB
    audit_log,       \* audit/<date>.jsonl, a sequence of AuditEntry
    stored_groups,   \* groups/*.json of the file store (MLS group ids)
    daemon,          \* the running daemon: its ACL and groups loaded at start
    daemon_log,      \* the daemon's JSONL output (stdout and --log-file)
    msg_store,       \* messages/<group>/<id>.json of the file store
    listen,          \* the running listen command: its group and dedup set
    listen_out,      \* lines printed by the listen command
    created,         \* MLS messages created by send / typing (create_message)
    published,       \* events handed to the relays by send / typing
    decisions,       \* every evaluation of is_allowed made by a command
    mdk,             \* per member, what its MDK instance holds for the group:
                     \* the epoch and the pending commit (0: none)
    commit_events,   \* the kind 445 evolution events returned to callers
    relay_acks,      \* <<event id, relay>>: the relay acknowledged the event
    merge_log,       \* the merges that returned Ok
    responses,       \* per member, the last result process_message handed to
                     \* its caller
    invite_out,      \* how the last run of the CLI invite command ended, and what it sent
    welcomes,        \* the welcomes in the MLS database of the CLI data
                     \* directory, by wrapper id: lifecycle state, whether
                     \* handling the wrapper again changed anything, the
                     \* run of the daemon that last reported the wrapper and
                     \* whether a later run reported it again
    read_out,        \* what the last run of the read command printed
    media_state,     \* encrypted media: the references a parser returned and
                     \* the downloads handed to MDK for decryption
    signaling,       \* call signaling: the clock, the signaling events built,
                     \* and those a receiver handed on or acted on, each with
                     \* whether its expiry had passed when it was received
    state_lock       \* the app's global state lock (tokio RwLock) and the
                     \* calls that run under it: per caller of
                     \* mdk.process_message, the group whose event it holds
                     \* a read guard for, and how many events it has done

vars == <<acl_procs, bridge, cli_mdk, app_welcomes, call_sessions, app_state, engine_daemon, mls_db, acl_file, env_owner_hex, env_owner_npub, audit_log, stored_groups,
          daemon, daemon_log, msg_store, listen, listen_out, created, published,
          decisions, mdk, commit_events, relay_acks, merge_log, responses,
          invite_out, welcomes, state_lock, read_out, signaling, media_state>>

\* the state of the engine handlers
EngineVars == <<mdk, commit_events, relay_acks, merge_log, responses, invite_out, state_lock,
               welcomes>>
\* the state of the CLI commands
CliVars == <<acl_procs, bridge, cli_mdk, app_welcomes, call_sessions, app_state, engine_daemon, mls_db, acl_file, env_owner_hex, env_owner_npub, audit_log, stored_groups,
             daemon, daemon_log, msg_store, listen, listen_out, created, published,
             decisions, read_out, signaling, media_state>>

\* ---------------------------------------------------- access_control.rs
\* bech32::decode on the strings the model feeds it
Bech32Decode(s) ==
    CASE s = "npub1cc" -> [ok |-> TRUE, hrp |-> "npub", data |-> "cc"]
      [] s = "nsec1cc" -> [ok |-> TRUE, hrp |-> "nsec", data |-> "cc"]
      [] OTHER -> [ok |-> FALSE, hrp |-> "", data |-> ""]

npub_to_hex(npub) ==
    LET d == Bech32Decode(npub) IN
    IF ~d.ok THEN NoneV
    ELSE IF d.hrp # "npub" THEN NoneV
    ELSE d.data

\* str::to_lowercase on the hex inputs of the model
ToLowercase(s) ==
    CASE s = "AA" -> "aa"
      [] s = "CC" -> "cc"
      [] OTHER -> s

\* 64 hex digits (either case)
IsHex64(s) == s \in Keys \cup {"AA", "CC"}

\* str::starts_with("npub1")
StartsWithNpub1(s) == s \in {"npub1cc", "npub1zz"}

\* resolve_to_hex: Ok(hex), or NoneV for the bail!
resolve_to_hex(input) ==
    IF IsHex64(input) THEN ToLowercase(input)
    ELSE IF StartsWithNpub1(input) /\ npub_to_hex(input) # NoneV THEN npub_to_hex(input)
    ELSE NoneV

\* AccessControl::load when the file does not exist
DefaultAclConfig ==
    [owner_hex |-> "", allowed_contacts |-> <<>>, allowed_groups |-> <<>>,
     log_rejected_content |-> FALSE, audit_enabled |-> TRUE]

owner_hex(config) ==
    IF env_owner_hex # Unset THEN env_owner_hex
    ELSE IF env_owner_npub # Unset /\ npub_to_hex(env_owner_npub) # NoneV
         THEN npub_to_hex(env_owner_npub)
    ELSE config.owner_hex

\* Iterator::any(|c| c == x) over a Vec
RECURSIVE AnyEq(_, _)
AnyEq(v, x) ==
    IF v = <<>> THEN FALSE
    ELSE IF Head(v) = x THEN TRUE
    ELSE AnyEq(Tail(v), x)

\* a plausible slip: both lists must match
is_allowed_both(config, sender_hex, group_id) ==
    LET owner == owner_hex(config) IN
    IF owner = "" THEN TRUE
    ELSE IF sender_hex = owner THEN TRUE
    ELSE AnyEq(config.allowed_contacts, sender_hex)
         /\ AnyEq(config.allowed_groups, group_id)

is_allowed(config, sender_hex, group_id) ==
    LET owner == owner_hex(config) IN
    IF owner = "" THEN TRUE
    ELSE IF sender_hex = owner THEN TRUE
    ELSE LET contact_ok == AnyEq(config.allowed_contacts, sender_hex)
             group_ok == AnyEq(config.allowed_groups, group_id)
         IN contact_ok \/ group_ok

\* Vec::retain(|c| c != x)
RECURSIVE Retain(_, _)
Retain(v, x) ==
    IF v = <<>> THEN <<>>
    ELSE IF Head(v) = x THEN Retain(Tail(v), x)
    ELSE <<Head(v)>> \o Retain(Tail(v), x)

\* AccessControl::add_contact: the config after the call (saved when changed)
add_contact(config, hex) ==
    IF ~AnyEq(config.allowed_contacts, hex)
    THEN [config EXCEPT !.allowed_contacts = Append(@, hex)]
    ELSE config

\* AccessControl::remove_contact: the config after the call and its Ok(bool)
remove_contact(config, hex) ==
    LET after == Retain(config.allowed_contacts, hex) IN
    IF Len(after) < Len(config.allowed_contacts)
    THEN [config |-> [config EXCEPT !.allowed_contacts = after], removed |-> TRUE]
    ELSE [config |-> config, removed |-> FALSE]

add_group(config, group_id) ==
    IF ~AnyEq(config.allowed_groups, group_id)
    THEN [config EXCEPT !.allowed_groups = Append(@, group_id)]
    ELSE config

remove_group(config, group_id) ==
    LET after == Retain(config.allowed_groups, group_id) IN
    IF Len(after) < Len(config.allowed_groups)
    THEN [config |-> [config EXCEPT !.allowed_groups = after], removed |-> TRUE]
    ELSE [config |-> config, removed |-> FALSE]

\* ------------------------------------------------------------- audit.rs
\* audit::log_message: the log after appending one entry of kind message
log_message(log, sender, group_id, allowed, details) ==
    Append(log, [type |-> "message", sender_pubkey |-> sender,
                 group_id |-> group_id, allowed |-> allowed, details |-> details])

\* audit::log_access_change: the log after appending one entry of kind access_change
log_access_change(log, details) ==
    Append(log, [type |-> "access_change", sender_pubkey |-> NoneV,
                 group_id |-> NoneV, allowed |-> TRUE, details |-> details])

\* ------------------------------------------------------ commands/acl.rs
\* the pubkey arguments a user gives to acl add-contact / remove-contact
PubkeyInputs == {"aa", "cc", "CC", "npub1cc", "npub1zz", "nsec1cc"}
\* the group arguments a user gives to acl add-group / remove-group
GroupInputs == {"n1", "n2"}

\* everything the acl commands leave alone
AclFrame ==
    UNCHANGED <<EngineVars, env_owner_hex, env_owner_npub, stored_groups, daemon, daemon_log,
                msg_store, listen, listen_out, created, published, decisions, read_out, signaling, media_state, mls_db, engine_daemon, app_state, call_sessions, app_welcomes, cli_mdk, bridge, acl_procs>>

\* acl add-contact <pubkey>
cmd_add_contact(pubkey) ==
    LET hex == resolve_to_hex(pubkey) IN
    /\ hex # NoneV
    /\ Len(audit_log) < MaxAudit
    /\ acl_file' = add_contact(acl_file, hex)
    /\ audit_log' = log_access_change(audit_log, <<"Added contact", hex>>)
    /\ AclFrame

\* acl remove-contact <pubkey>
cmd_remove_contact(pubkey) ==
    LET hex == resolve_to_hex(pubkey)
        r == remove_contact(acl_file, hex)
    IN
    /\ hex # NoneV
    /\ r.removed
    /\ Len(audit_log) < MaxAudit
    /\ acl_file' = r.config
    /\ audit_log' = log_access_change(audit_log, <<"Removed contact", hex>>)
    /\ AclFrame

\* acl add-group <group_id>
cmd_add_group(group_id) ==
    /\ Len(audit_log) < MaxAudit
    /\ acl_file' = add_group(acl_file, group_id)
    /\ audit_log' = log_access_change(audit_log, <<"Added group", group_id>>)
    /\ AclFrame

\* acl remove-group <group_id>
cmd_remove_group(group_id) ==
    LET r == remove_group(acl_file, group_id) IN
    /\ r.removed
    /\ Len(audit_log) < MaxAudit
    /\ acl_file' = r.config
    /\ audit_log' = log_access_change(audit_log, <<"Removed group", group_id>>)
    /\ AclFrame

AclAddContact == \E pubkey \in PubkeyInputs : cmd_add_contact(pubkey)
AclRemoveContact == \E pubkey \in PubkeyInputs : cmd_remove_contact(pubkey)
AclAddGroup == \E group_id \in GroupInputs : cmd_add_group(group_id)
AclRemoveGroup == \E group_id \in GroupInputs : cmd_remove_group(group_id)

\* ---------------------------------------------------- commands/daemon.rs
\* one line of the daemon's JSONL output
DaemonLogEntry(type, group_id, sender, content, allowed) ==
    [type |-> type, group_id |-> group_id, sender_pubkey |-> sender,
     content |-> content, allowed |-> allowed]

\* a store that adds a record on every receipt and never replaces one
save_message_appending(store, stored) == store \cup {stored}

\* FileStore::save_message: one file per (group, inner event id), overwritten
save_message(store, stored) ==
    {x \in store : ~(x.mls_group_id_hex = stored.mls_group_id_hex
                     /\ x.event_id_hex = stored.event_id_hex)} \cup {stored}

\* the daemon is not running
DaemonDown ==
    [up |-> FALSE, use_acl |-> FALSE, acl |-> DefaultAclConfig, groups |-> {}]

\* daemon start: load the ACL (unless --no-access-control) and the groups,
\* publish a key package, write the startup line, subscribe
DaemonStart ==
    \E no_access_control \in BOOLEAN, keygen_published \in BOOLEAN :
        /\ ~daemon.up
        /\ Len(daemon_log) + (IF keygen_published THEN 2 ELSE 1) <= MaxStartLog
        /\ daemon' = [up |-> TRUE, use_acl |-> ~no_access_control,
                      acl |-> IF no_access_control THEN DefaultAclConfig ELSE acl_file,
                      groups |-> stored_groups]
        /\ daemon_log' =
             (IF keygen_published
              THEN Append(daemon_log, DaemonLogEntry("keygen", NoneV, NoneV, "KeyPackage published", NoneV))
              ELSE daemon_log)
             \o <<DaemonLogEntry("startup", NoneV, NoneV, "Listening", NoneV)>>
        /\ UNCHANGED <<EngineVars, acl_file, env_owner_hex, env_owner_npub, audit_log, stored_groups,
                       msg_store, listen, listen_out, created, published, decisions, read_out, signaling, media_state, mls_db, engine_daemon, app_state, call_sessions, app_welcomes, cli_mdk, bridge, acl_procs>>

\* the daemon process ends (signal, relay pool shut down)
DaemonStop ==
    /\ daemon.up
    /\ daemon' = DaemonDown
    /\ UNCHANGED <<EngineVars, acl_file, env_owner_hex, env_owner_npub, audit_log, stored_groups,
                   daemon_log, msg_store, listen, listen_out, created, published, decisions, read_out, signaling, media_state, mls_db, engine_daemon, app_state, call_sessions, app_welcomes, cli_mdk, bridge, acl_procs>>

\* the subscription filter of the daemon: kind 445 with one h tag per group
\* loaded at start (no h tag at all when there was none)
DaemonFilterMatches(m) == daemon.groups = {} \/ m.group \in daemon.groups

\* a kind 445 event for which mdk.process_message returns ApplicationMessage(msg)
DaemonOnApplicationMessage ==
    \E msg \in Messages :
        LET sender_hex == msg.pubkey
            group_hex == msg.group
            nostr_gid == IF group_hex \in daemon.groups THEN NostrGroupId(group_hex) ELSE ""
            allowed == IF daemon.use_acl THEN is_allowed(daemon.acl, sender_hex, nostr_gid) ELSE TRUE
            audit_on == IF daemon.use_acl THEN daemon.acl.audit_enabled ELSE FALSE
            display_content == IF allowed THEN msg.content ELSE NoneV
            stored == [event_id_hex |-> msg.id, author_pubkey_hex |-> sender_hex,
                       content |-> msg.content, created_at |-> msg.created_at,
                       mls_group_id_hex |-> group_hex,
                       wrapper_event_id_hex |-> WrapperId(msg),
                       by |-> "daemon", acl_ok |-> allowed]
        IN
        /\ daemon.up
        /\ DaemonFilterMatches(msg)
        /\ Len(daemon_log) < MaxDaemonLog
        /\ audit_on => Len(audit_log) < MaxAudit
        /\ audit_log' = IF audit_on
                        THEN log_message(audit_log, sender_hex, nostr_gid, allowed, NoneV)
                        ELSE audit_log
        /\ daemon_log' = Append(daemon_log,
                                DaemonLogEntry("message", nostr_gid, sender_hex, display_content, allowed))
        /\ msg_store' = IF allowed THEN save_message(msg_store, stored) ELSE msg_store
        /\ decisions' = IF daemon.use_acl THEN decisions + 1 ELSE decisions
        /\ UNCHANGED <<EngineVars, acl_file, env_owner_hex, env_owner_npub, stored_groups, daemon,
                       listen, listen_out, created, published, read_out, signaling, media_state, mls_db, engine_daemon, app_state, call_sessions, app_welcomes, cli_mdk, bridge, acl_procs>>

\* a daemon that ends its notification loop after reporting the error
DaemonOnDecryptError_exits ==
    /\ daemon.up
    /\ Len(daemon_log) < MaxDaemonLog
    /\ daemon_log' = Append(daemon_log, DaemonLogEntry("decrypt_error", NoneV, NoneV, NoneV, NoneV))
    /\ daemon' = DaemonDown
    /\ UNCHANGED <<EngineVars, acl_file, env_owner_hex, env_owner_npub, audit_log, stored_groups,
                   msg_store, listen, listen_out, created, published, decisions, read_out, signaling, media_state, mls_db, engine_daemon, app_state, call_sessions, app_welcomes, cli_mdk, bridge, acl_procs>>

\* a kind 445 event for which mdk.process_message returns Err
DaemonOnDecryptError ==
    /\ daemon.up
    /\ Len(daemon_log) < MaxDaemonLog
    /\ daemon_log' = Append(daemon_log, DaemonLogEntry("decrypt_error", NoneV, NoneV, NoneV, NoneV))
    /\ UNCHANGED <<EngineVars, acl_file, env_owner_hex, env_owner_npub, audit_log, stored_groups, daemon,
                   msg_store, listen, listen_out, created, published, decisions, read_out, signaling, media_state, mls_db, engine_daemon, app_state, call_sessions, app_welcomes, cli_mdk, bridge, acl_procs>>

\* the number of the daemon's run: the startup lines written so far
RunNo(log) == Cardinality({i \in DOMAIN log : log[i].type = "startup"})

\* the sender unwrapped from a gift wrap
WelcomeSender(w) == "aa"

\* the lines the daemon writes for one gift wrap
GiftWrapLines(w, unwrap_ok, process_ok, state, found, accept_ok) ==
    LET gid == NostrGroupId(WelcomeGroup(w))
        from == WelcomeSender(w)
    IN
    IF ~unwrap_ok
    THEN <<DaemonLogEntry("gift_wrap_error", NoneV, NoneV, NoneV, NoneV)>>
    ELSE <<DaemonLogEntry("gift_wrap_received", NoneV, from, "Kind 444 Welcome rumor received", NoneV)>>
         \o (IF ~process_ok
             THEN <<DaemonLogEntry("welcome_process_error", NoneV, from, NoneV, NoneV)>>
             ELSE IF state = "accepted"
             THEN <<DaemonLogEntry("welcome_skipped", gid, from, "Already accepted", NoneV)>>
             ELSE <<DaemonLogEntry("welcome_processed", gid, from, "Welcome to group", NoneV)>>
                  \o (IF found /\ accept_ok
                      THEN <<DaemonLogEntry("welcome_accepted", gid, from, "Auto-accepted", NoneV)>>
                      ELSE <<DaemonLogEntry("welcome_accept_error",
                                            IF found THEN gid ELSE NoneV, NoneV, NoneV, NoneV)>>))

\* a kind 1059 event carrying a kind 444 rumor reaches the daemon.
\*   unwrap_ok:  nip59::extract_rumor returned Ok
\*   process_ok: mdk.process_welcome returned Ok(welcome); for a wrapper it has
\*               processed before, MDK returns the stored welcome in its state
\*   found:      mdk.get_welcome(welcome.id) returned Ok(Some)
\*   accept_ok:  mdk.accept_welcome returned Ok
DaemonOnGiftWrap ==
    \E w \in Wrappers, unwrap_ok \in BOOLEAN, process_ok \in BOOLEAN,
       found \in BOOLEAN, accept_ok \in BOOLEAN :
        LET before == welcomes[w].state
            seen == before # "none"
            processed == unwrap_ok /\ process_ok
            state == IF seen THEN before ELSE "pending"
            accepted == processed /\ state # "accepted" /\ found /\ accept_ok
            after == IF ~processed THEN before
                     ELSE IF accepted THEN "accepted"
                     ELSE state
            groups_after == IF accepted
                            THEN stored_groups \cup {WelcomeGroup(w)}
                            ELSE stored_groups
        IN
        /\ daemon.up
        /\ Len(daemon_log) + 3 <= MaxWelcomeLog
        /\ daemon_log' = daemon_log
               \o GiftWrapLines(w, unwrap_ok, process_ok, state, found, accept_ok)
        /\ stored_groups' = groups_after
        /\ welcomes' = [welcomes EXCEPT ![w] =
               [state |-> after,
                repeat_changed |-> \/ @.repeat_changed
                                   \/ seen /\ (after # before \/ groups_after # stored_groups),
                last_run |-> IF unwrap_ok THEN RunNo(daemon_log) ELSE @.last_run,
                replayed |-> \/ @.replayed
                             \/ unwrap_ok /\ @.last_run # 0 /\ @.last_run < RunNo(daemon_log)]]
        /\ UNCHANGED <<mdk, commit_events, relay_acks, merge_log, responses, invite_out, state_lock,
                       acl_file, env_owner_hex, env_owner_npub, audit_log, daemon,
                       msg_store, listen, listen_out, created, published, decisions, read_out, signaling, media_state, mls_db, engine_daemon, app_state, call_sessions, app_welcomes, cli_mdk, bridge, acl_procs>>

\* --------------------------------------------------- commands/welcome.rs
\* welcome list: every gift wrap fetched and unwrapped is handed to
\* mdk.process_welcome, which stores a new welcome as pending; ok is the set
\* of wrappers for which fetch, unwrap and process_welcome succeeded
WelcomeListRun ==
    \E ok \in SUBSET Wrappers :
        /\ welcomes' = [w \in Wrappers |->
               IF w \in ok /\ welcomes[w].state = "none"
               THEN [welcomes[w] EXCEPT !.state = "pending"]
               ELSE welcomes[w]]
        /\ UNCHANGED <<mdk, commit_events, relay_acks, merge_log, responses, invite_out, state_lock,
                       CliVars>>

\* welcome accept <event-id>: fetch the gift wrap, process_welcome, then
\* get_welcome with the id of the gift wrap, accept_welcome, save the group
WelcomeAcceptRun ==
    \E w \in Wrappers, process_ok \in BOOLEAN, found \in BOOLEAN, accept_ok \in BOOLEAN :
        LET before == welcomes[w].state
            state == IF before = "none" THEN "pending" ELSE before
            accepted == process_ok /\ found /\ accept_ok
        IN
        /\ welcomes' = [welcomes EXCEPT ![w].state =
               IF ~process_ok THEN before
               ELSE IF accepted THEN "accepted"
               ELSE state]
        /\ stored_groups' = IF accepted
                            THEN stored_groups \cup {WelcomeGroup(w)}
                            ELSE stored_groups
        /\ UNCHANGED <<mdk, commit_events, relay_acks, merge_log, responses, invite_out, state_lock,
                       acl_file, env_owner_hex, env_owner_npub, audit_log, daemon,
                       daemon_log, msg_store, listen, listen_out, created, published,
                       decisions, read_out, signaling, media_state, mls_db, engine_daemon, app_state, call_sessions, app_welcomes, cli_mdk, bridge, acl_procs>>

\* ---------------------------------------------------- commands/listen.rs
\* seen is the part of seen_events made of the ids of Messages and others the
\* number of further ids in it; done are the ids handed to
\* mdk.process_message in this run, twice whether one was handed to it
\* again, and batches how many runs of further events there were
ListenDown == [up |-> FALSE, group |-> NoneV, seen |-> {}, others |-> 0,
               done |-> {}, twice |-> FALSE, batches |-> 0]

\* listen <group>: the group is looked up in the file store, then subscribed
ListenStart ==
    \E g \in stored_groups :
        /\ ~listen.up
        /\ listen' = [ListenDown EXCEPT !.up = TRUE, !.group = g]
        /\ UNCHANGED <<EngineVars, acl_file, env_owner_hex, env_owner_npub, audit_log, stored_groups,
                       daemon, daemon_log, msg_store, listen_out, created, published, decisions, read_out, signaling, media_state, mls_db, engine_daemon, app_state, call_sessions, app_welcomes, cli_mdk, bridge, acl_procs>>

\* Ctrl+C
ListenStop ==
    /\ listen.up
    /\ listen' = ListenDown
    /\ UNCHANGED <<EngineVars, acl_file, env_owner_hex, env_owner_npub, audit_log, stored_groups,
                   daemon, daemon_log, msg_store, listen_out, created, published, decisions, read_out, signaling, media_state, mls_db, engine_daemon, app_state, call_sessions, app_welcomes, cli_mdk, bridge, acl_procs>>

\* HashSet::insert, then the clear once the set has grown past the limit
SeenCleared(seen, others, id) ==
    Cardinality(seen \cup {id}) + others > SeenLimit

SeenAfter(seen, others, id) ==
    IF SeenCleared(seen, others, id) THEN {} ELSE seen \cup {id}

\* the notification handler of listen for a kind 445 event of the group;
\* is_app: mdk.process_message returned ApplicationMessage (else commit,
\* proposal or error, which print nothing to stdout and store nothing)
ListenOnEvent ==
    \E msg \in Messages, is_app \in BOOLEAN :
        LET stored == [event_id_hex |-> msg.id, author_pubkey_hex |-> msg.pubkey,
                       content |-> msg.content, created_at |-> msg.created_at,
                       mls_group_id_hex |-> msg.group,
                       wrapper_event_id_hex |-> WrapperId(msg),
                       by |-> "listen",
                       acl_ok |-> is_allowed(acl_file, msg.pubkey, NostrGroupId(msg.group))]
        IN
        /\ listen.up
        /\ msg.group = listen.group
        /\ WrapperId(msg) \notin listen.seen
        /\ listen' = [listen EXCEPT
                         !.seen = SeenAfter(@, listen.others, WrapperId(msg)),
                         !.others = IF SeenCleared(listen.seen, @, WrapperId(msg))
                                    THEN 0 ELSE @,
                         !.done = @ \cup {WrapperId(msg)},
                         !.twice = @ \/ WrapperId(msg) \in listen.done]
        /\ listen_out' = IF is_app
                         THEN listen_out \cup {[sender |-> msg.pubkey, content |-> msg.content,
                                                 acl_ok |-> stored.acl_ok]}
                         ELSE listen_out
        /\ msg_store' = IF is_app THEN save_message(msg_store, stored) ELSE msg_store
        /\ UNCHANGED <<EngineVars, acl_file, env_owner_hex, env_owner_npub, audit_log, stored_groups,
                       daemon, daemon_log, created, published, decisions, read_out, signaling, media_state, mls_db, engine_daemon, app_state, call_sessions, app_welcomes, cli_mdk, bridge, acl_procs>>

\* the numbers of further events a run of them may have
BatchSizes == {1, SeenLimit - 1, SeenLimit}

\* n further kind 445 events of the group reach the handler one after the
\* other, each with an id not seen before in this run, none an application
\* message (process_message returns a commit, a proposal or an error, and
\* nothing is printed or stored). Each is inserted, and the set is cleared
\* by the insert that takes it past the limit.
ListenOnOtherEvents ==
    \E n \in BatchSizes :
        LET total == Cardinality(listen.seen) + listen.others + n IN
        /\ listen.up
        /\ listen.batches < MaxBatches
        /\ listen' = [listen EXCEPT
                         !.seen = IF total > SeenLimit THEN {} ELSE @,
                         !.others = IF total > SeenLimit
                                    THEN total - (SeenLimit + 1)
                                    ELSE @ + n,
                         !.batches = @ + 1]
        /\ UNCHANGED <<EngineVars, acl_file, env_owner_hex, env_owner_npub, audit_log, stored_groups,
                       daemon, daemon_log, msg_store, listen_out, created, published, decisions, read_out, signaling, media_state, mls_db, engine_daemon, app_state, call_sessions, app_welcomes, cli_mdk, bridge, acl_procs>>

\* ------------------------------------------- file_store.rs, commands/read.rs
\* the orders in which fs::read_dir may list the files of a directory
ReadDirOrders(files) ==
    {f \in [1..Cardinality(files) -> files] :
        \A x \in files : \E i \in 1..Cardinality(files) : f[i] = x}

\* Vec::sort_by_key(|m| m.created_at): a stable sort, elements with equal
\* keys keep the order they had
RECURSIVE InsertByKey(_, _)
InsertByKey(sorted, x) ==
    IF sorted = <<>> THEN <<x>>
    ELSE IF Head(sorted).created_at <= x.created_at
         THEN <<Head(sorted)>> \o InsertByKey(Tail(sorted), x)
         ELSE <<x>> \o sorted

RECURSIVE sort_by_key(_)
sort_by_key(msgs) ==
    IF msgs = <<>> THEN <<>>
    ELSE InsertByKey(sort_by_key(SubSeq(msgs, 1, Len(msgs) - 1)), msgs[Len(msgs)])

\* FileStore::load_messages: the messages of the group's directory, in the
\* order read_dir listed them, are sorted by created_at and the last limit
\* of them are kept
load_messages(order, limit) ==
    LET msgs == sort_by_key(order) IN
    IF Len(msgs) > limit
    THEN SubSeq(msgs, Len(msgs) - limit + 1, Len(msgs))
    ELSE msgs

\* read <group> --limit n: the messages are printed in the order
\* load_messages returned them
ReadRun ==
    \E g \in stored_groups, limit \in 1..MaxLimit :
        \E order \in ReadDirOrders({x \in msg_store : x.mls_group_id_hex = g}) :
            LET messages == load_messages(order, limit) IN
            /\ read_out' = [i \in 1..Len(messages) |->
                               [event_id_hex |-> messages[i].event_id_hex,
                                created_at |-> messages[i].created_at,
                                content |-> messages[i].content]]
            /\ UNCHANGED <<EngineVars, acl_file, env_owner_hex, env_owner_npub, audit_log,
                           stored_groups, daemon, daemon_log, msg_store, listen,
                           listen_out, created, published, decisions, signaling, media_state, mls_db, engine_daemon, app_state, call_sessions, app_welcomes, cli_mdk, bridge, acl_procs>>

\* ------------------------------------------------------ commands/send.rs
\* send <group> <message> [--media file]
\*   pre_ok:  the MLS database opened and (for media) the file was read,
\*            encrypted and uploaded
\*   mdk_ok:  mdk.create_message returned Ok
\*   sent_ok: client.send_event returned Ok
SendRun ==
    \E g \in stored_groups, media \in BOOLEAN, pre_ok \in BOOLEAN,
       mdk_ok \in BOOLEAN, sent_ok \in BOOLEAN :
        LET acl == acl_file
            allowed == is_allowed(acl, Identity, NostrGroupId(g))
            did_create == allowed /\ pre_ok /\ mdk_ok
            did_send == did_create /\ sent_ok
            ev == [kind |-> IF media THEN "media" ELSE "text", group |-> g,
                   acl_ok |-> allowed]
        IN
        /\ decisions < MaxDecisions
        /\ decisions' = decisions + 1
        /\ created' = IF did_create THEN created \cup {ev} ELSE created
        /\ published' = IF did_send THEN published \cup {ev} ELSE published
        /\ UNCHANGED <<EngineVars, acl_file, env_owner_hex, env_owner_npub, audit_log, stored_groups,
                       daemon, daemon_log, msg_store, listen, listen_out, read_out, signaling, media_state, mls_db, engine_daemon, app_state, call_sessions, app_welcomes, cli_mdk, bridge, acl_procs>>

\* typing <group>: a kind 10000 rumor, encrypted and published
TypingRun ==
    \E g \in stored_groups, mdk_ok \in BOOLEAN, sent_ok \in BOOLEAN :
        LET ev == [kind |-> "typing", group |-> g,
                   acl_ok |-> is_allowed(acl_file, Identity, NostrGroupId(g))]
        IN
        /\ mdk_ok
        /\ created' = created \cup {ev}
        /\ published' = IF sent_ok THEN published \cup {ev} ELSE published
        /\ UNCHANGED <<EngineVars, acl_file, env_owner_hex, env_owner_npub, audit_log, stored_groups,
                       daemon, daemon_log, msg_store, listen, listen_out, decisions, read_out, signaling, media_state, mls_db, engine_daemon, app_state, call_sessions, app_welcomes, cli_mdk, bridge, acl_procs>>

\* ------------------------------------------------------------ MDK results
\* The MLS library is not part of the repository: whether a call succeeds is an
\* input of the handler.  What the model keeps per member is what the handlers
\* hand over and get back: the pending commit and the epoch of the group.

\* event ids are hashes: a new event takes any id not yet used
FreshIds == {i \in 1..MaxCommits : \A e \in commit_events : e.id # i}

\* the commit event with this id
EventOf(id) == CHOOSE e \in commit_events : e.id = id

\* some relay has acknowledged the event
Acked(id) == \E r \in Relays : <<id, r>> \in relay_acks

\* mdk.add_members / remove_members / update_group_data returned Ok(result):
\* result.evolution_event is the commit, now pending in the member's MDK
CreateCommit(m, id) ==
    /\ mdk' = [mdk EXCEPT ![m].pending = id]
    /\ commit_events' = commit_events \cup {[id |-> id, author |-> m, epoch |-> mdk[m].epoch]}
    /\ UNCHANGED <<relay_acks, merge_log, responses, invite_out, welcomes, state_lock, CliVars>>

\* mdk.merge_pending_commit returned Ok: the pending commit is merged, the
\* epoch advances.  The log keeps whether a relay had acknowledged the commit.
MergeCommit(m) ==
    /\ mdk' = [mdk EXCEPT ![m] = [epoch |-> @.epoch + 1, pending |-> 0]]
    /\ merge_log' = merge_log \cup
           {[member |-> m, commit |-> mdk[m].pending, acked |-> Acked(mdk[m].pending)]}
    /\ UNCHANGED <<commit_events, relay_acks, responses, invite_out, welcomes, state_lock, CliVars>>

\* process_message has not been called yet
NoResponse ==
    [conflict |-> FALSE, loser |-> FALSE, applied |-> FALSE, result_type |-> NoneV]

\* the MessageProcessingResult variants mdk.process_message returns for a
\* commit event, and "Err" for its Err
CommitOutcomes == {"Commit", "Unprocessable", "PreviouslyFailed", "Err"}

\* the match of process_message / cmd_process_message: variant to result type
ResultType(variant) ==
    CASE variant = "ApplicationMessage" -> "application_message"
      [] variant = "Commit" -> "commit"
      [] variant = "Proposal" -> "proposal"
      [] variant = "PendingProposal" -> "pending_proposal"
      [] variant = "IgnoredProposal" -> "ignored_proposal"
      [] variant = "ExternalJoinProposal" -> "external_join_proposal"
      [] variant = "Unprocessable" -> "unprocessable"
      [] variant = "PreviouslyFailed" -> "previously_failed"

\* a member hands another member's commit event to mdk.process_message.
\*   outcome: what MDK returned; cleared: whether MDK dropped the member's own
\*   pending commit when it applied the external one
ProcessCommit(m, ev, outcome, cleared) ==
    LET applied == outcome = "Commit"
        conflict == /\ mdk[m].pending # 0
                    /\ EventOf(mdk[m].pending).epoch = ev.epoch
        after == IF applied
                 THEN [epoch |-> mdk[m].epoch + 1,
                       pending |-> IF cleared THEN 0 ELSE mdk[m].pending]
                 ELSE mdk[m]
    IN
    /\ ev.author # m
    /\ applied => (ev.epoch = mdk[m].epoch /\ mdk[m].epoch < MaxEpoch)
    /\ ~applied => cleared
    /\ mdk' = [mdk EXCEPT ![m] = after]
    /\ responses' = [responses EXCEPT ![m] =
           [conflict |-> conflict, loser |-> conflict /\ ev.id < mdk[m].pending,
            applied |-> applied,
            result_type |-> IF outcome = "Err" THEN "error" ELSE ResultType(outcome)]]
    /\ UNCHANGED <<commit_events, relay_acks, merge_log, invite_out, welcomes, state_lock, CliVars>>

\* ------------------------------------------------- app/rust/src/api (member A)
\* add_members(group, key packages): Err is returned to the caller unchanged
add_members(m) ==
    \E mdk_ok \in BOOLEAN, id \in FreshIds : mdk_ok /\ CreateCommit(m, id)

remove_members(m) ==
    \E mdk_ok \in BOOLEAN, id \in FreshIds : mdk_ok /\ CreateCommit(m, id)

update_group_name(m) ==
    \E mdk_ok \in BOOLEAN, id \in FreshIds : mdk_ok /\ CreateCommit(m, id)

\* merge_pending_commit(group): no condition of its own, MDK decides
merge_pending_commit(m) ==
    \E mdk_ok \in BOOLEAN :
        /\ mdk_ok
        /\ mdk[m].pending # 0
        /\ mdk[m].epoch < MaxEpoch
        /\ MergeCommit(m)

\* publish_event_json(event): client.send_event; success is the set of relays
\* that acknowledged.  The handler returns the event id whatever the set is.
publish_event_json(m) ==
    \E ev \in commit_events, sent_ok \in BOOLEAN, success \in SUBSET Relays :
        /\ ev.author = m
        /\ sent_ok
        /\ relay_acks' = relay_acks \cup {<<ev.id, r>> : r \in success}
        /\ UNCHANGED <<mdk, commit_events, merge_log, responses, invite_out, welcomes, state_lock, CliVars>>

process_message(m) ==
    \E ev \in commit_events, outcome \in CommitOutcomes, cleared \in BOOLEAN :
        ProcessCommit(m, ev, outcome, cleared)

AppAddMembers == add_members("A")
AppRemoveMembers == remove_members("A")
AppUpdateGroupName == update_group_name("A")
AppMergePendingCommit == merge_pending_commit("A")
AppPublishEventJson == publish_event_json("A")
AppProcessMessage == process_message("A")

\* ------------------------------------------------- mls-engine (member B)
\* {"command": "add_members"} on stdin
cmd_add_members(m) ==
    \E mdk_ok \in BOOLEAN, id \in FreshIds : mdk_ok /\ CreateCommit(m, id)

\* {"command": "merge_pending_commit"} on stdin; the engine has no relay
\* connection and accepts its commands in any order
cmd_merge_pending_commit(m) ==
    \E mdk_ok \in BOOLEAN :
        /\ mdk_ok
        /\ mdk[m].pending # 0
        /\ mdk[m].epoch < MaxEpoch
        /\ MergeCommit(m)

\* {"command": "process_message"} on stdin
cmd_process_message(m) ==
    \E ev \in commit_events, outcome \in CommitOutcomes, cleared \in BOOLEAN :
        ProcessCommit(m, ev, outcome, cleared)

EngineAddMembers == cmd_add_members("B")
EngineMergePendingCommit == cmd_merge_pending_commit("B")
EngineProcessMessage == cmd_process_message("B")

\* ------------------------------------------------------- api/state.rs
\* the three callers of mdk.process_message in the app
Callers == {"process_message", "sync_group_messages", "listen_for_group_messages"}

\* with_state: global().read().await, then the closure runs under the read
\* guard. A read guard is granted while no write guard is held, whatever
\* other read guards are out. The closure here is the one that hands an
\* event of group g to mdk.process_message.
WithStateBegin(c, g) ==
    /\ ~state_lock.writer
    /\ state_lock.readers[c] = NoneV
    /\ state_lock.processed[c] < MaxProcessed
    /\ state_lock' = [state_lock EXCEPT !.readers[c] = g]
    /\ UNCHANGED <<mdk, commit_events, relay_acks, merge_log, responses, invite_out,
                   welcomes, CliVars>>

\* the closure returns and the read guard is dropped
WithStateEnd(c) ==
    /\ state_lock.readers[c] # NoneV
    /\ state_lock' = [state_lock EXCEPT !.readers[c] = NoneV,
                                        !.processed[c] = @ + 1]
    /\ UNCHANGED <<mdk, commit_events, relay_acks, merge_log, responses, invite_out,
                   welcomes, CliVars>>

\* with_state_mut: global().write().await is granted when no guard is out
WithStateMutBegin ==
    /\ ~state_lock.writer
    /\ \A c \in Callers : state_lock.readers[c] = NoneV
    /\ state_lock' = [state_lock EXCEPT !.writer = TRUE]
    /\ UNCHANGED <<mdk, commit_events, relay_acks, merge_log, responses, invite_out,
                   welcomes, CliVars>>

WithStateMutEnd ==
    /\ state_lock.writer
    /\ state_lock' = [state_lock EXCEPT !.writer = FALSE]
    /\ UNCHANGED <<mdk, commit_events, relay_acks, merge_log, responses, invite_out,
                   welcomes, CliVars>>

\* process_message(event_json), called by the Dart side
AppProcessMessageBegin == \E g \in Groups : WithStateBegin("process_message", g)
AppProcessMessageEnd == WithStateEnd("process_message")
\* one iteration of the loop of sync_group_messages over the fetched events
SyncProcessBegin == \E g \in Groups : WithStateBegin("sync_group_messages", g)
SyncProcessEnd == WithStateEnd("sync_group_messages")
\* the notification handler of listen_for_group_messages, for one event
ListenProcessBegin == \E g \in Groups : WithStateBegin("listen_for_group_messages", g)
ListenProcessEnd == WithStateEnd("listen_for_group_messages")

\* -------------------------------------------- api/media.rs, cli media.rs
\* the implemented scheme version
SchemeVersion == "mip04-v2"

\* the fields of an imeta tag as received: the byte lengths that the x and
\* n values decode to, and the v value (NoneV: the tag has no v)
ImetaTags ==
    [hash_len : {HashLen, HashLen - 1}, nonce_len : {NonceLen, NonceLen + 4},
     scheme_version : {SchemeVersion, "mip04-v1", NoneV}]

\* the last path segment of a download URL: the 64 hex characters of a
\* hash, a hash followed by a file extension, or something else
UrlForms == {"hash", "hash.ext", "other"}

MediaErr == [ok |-> FALSE, hash_len |-> 0, nonce_len |-> 0, scheme_version |-> NoneV]
MediaOk(hash_len, nonce_len, scheme_version) ==
    [ok |-> TRUE, hash_len |-> hash_len, nonce_len |-> nonce_len,
     scheme_version |-> scheme_version]

\* app: parse_imeta_tag
parse_imeta_tag(tag) ==
    IF tag.hash_len # HashLen THEN MediaErr
    ELSE IF tag.nonce_len # NonceLen THEN MediaErr
    ELSE IF tag.scheme_version = NoneV THEN MediaErr
    ELSE IF tag.scheme_version # SchemeVersion THEN MediaErr
    ELSE MediaOk(tag.hash_len, tag.nonce_len, tag.scheme_version)

\* app: build_media_reference, from the flat fields of the FFI call
build_media_reference(hash_len, nonce_len, scheme_version) ==
    IF hash_len # HashLen THEN MediaErr
    ELSE IF nonce_len # NonceLen THEN MediaErr
    ELSE MediaOk(hash_len, nonce_len, scheme_version)

\* CLI: parse_imeta_tags keeps a tag that has url, m, filename, x, n and v
parse_imeta_tags(tag) ==
    IF tag.scheme_version = NoneV THEN {} ELSE {tag}

\* CLI: to_media_reference
to_media_reference(att) ==
    IF att.hash_len # HashLen THEN MediaErr
    ELSE IF att.nonce_len # NonceLen THEN MediaErr
    ELSE MediaOk(att.hash_len, att.nonce_len, att.scheme_version)

\* a download whose body went to manager.decrypt_from_download
Handed(by, reference, url_form, body_matches, returned) ==
    [by |-> by, hash_len |-> reference.hash_len, nonce_len |-> reference.nonce_len,
     scheme_version |-> reference.scheme_version, url_form |-> url_form,
     body_matches |-> body_matches, returned |-> returned]

MediaFrame ==
    UNCHANGED <<EngineVars, acl_file, env_owner_hex, env_owner_npub, audit_log,
                stored_groups, daemon, daemon_log, msg_store, listen, listen_out,
                created, published, decisions, read_out, signaling, mls_db, engine_daemon, app_state, call_sessions, app_welcomes, cli_mdk, bridge, acl_procs>>

\* app: parse_imeta_tag called on the values of a received imeta tag
AppParseImetaTag ==
    \E tag \in ImetaTags :
        /\ media_state' = [media_state EXCEPT !.parsed = @ \cup {parse_imeta_tag(tag)}]
        /\ MediaFrame

\* app: download_media. The body is fetched; if the last segment of the URL
\* is 64 hex characters and differs from the SHA-256 of the body the call
\* fails; else decrypt_file builds the reference and hands the body to MDK.
\*   body_matches: the SHA-256 of the body is the hash in the URL
\*   decrypt_ok:   manager.decrypt_from_download returned Ok
download_media ==
    \E url_form \in UrlForms, body_matches \in BOOLEAN, decrypt_ok \in BOOLEAN,
       tag \in ImetaTags :
        LET integrity_failed == url_form = "hash" /\ ~body_matches
            reference == build_media_reference(tag.hash_len, tag.nonce_len,
                                               tag.scheme_version)
            h == Handed("download_media", reference, url_form, body_matches, decrypt_ok)
        IN
        /\ tag.scheme_version # NoneV
        /\ media_state' = IF ~integrity_failed /\ reference.ok
                        /\ Cardinality(media_state.handed \cup {h}) <= MaxHanded
                    THEN [media_state EXCEPT !.handed = @ \cup {h}]
                    ELSE media_state
        /\ MediaFrame

\* CLI: auto_download_attachments over one imeta tag: parse_imeta_tags, skip
\* if the file is in the media directory, else download_and_decrypt: fetch,
\* to_media_reference, decrypt, write the file
auto_download_attachments ==
    \E url_form \in UrlForms, body_matches \in BOOLEAN, decrypt_ok \in BOOLEAN,
       tag \in ImetaTags :
        LET exists == \E x \in media_state.handed : x.by = "download_and_decrypt" /\ x.returned
        IN
        /\ media_state' =
             IF parse_imeta_tags(tag) = {} \/ exists THEN media_state
             ELSE LET reference == to_media_reference(tag)
                      h == Handed("download_and_decrypt", reference, url_form,
                                  body_matches, decrypt_ok)
                  IN IF reference.ok /\ Cardinality(media_state.handed \cup {h}) <= MaxHanded
                     THEN [media_state EXCEPT !.handed = @ \cup {h}]
                     ELSE media_state
        /\ MediaFrame

\* --------------------------------- api/call_signaling.rs, commands/call.rs
\* the signaling kinds the builders are called with here
CallKinds == {KIND_CALL_OFFER, KIND_CALL_END}

\* Timestamp::now() moves on
Tick ==
    /\ signaling.now + TickSecs <= MaxNow
    /\ signaling' = [signaling EXCEPT !.now = @ + TickSecs]
    /\ UNCHANGED <<EngineVars, acl_file, env_owner_hex, env_owner_npub, audit_log,
                   stored_groups, daemon, daemon_log, msg_store, listen, listen_out,
                   created, published, decisions, read_out, media_state, mls_db, engine_daemon, app_state, call_sessions, app_welcomes, cli_mdk, bridge, acl_procs>>

\* a signaling event as a receiver sees it: the kind and creation time of
\* the rumor and its expiration tag, if it has one
SignalingEvent(path, kind_num, created_at, has_expiration, expiration) ==
    [path |-> path, kind |-> kind_num, created_at |-> created_at,
     has_expiration |-> has_expiration, expiration |-> expiration]

Built(ev) ==
    /\ Cardinality(signaling.built \cup {ev}) <= MaxSignals
    /\ signaling' = [signaling EXCEPT !.built = @ \cup {ev}]
    /\ UNCHANGED <<EngineVars, acl_file, env_owner_hex, env_owner_npub, audit_log,
                   stored_groups, daemon, daemon_log, msg_store, listen, listen_out,
                   created, published, decisions, read_out, media_state, mls_db, engine_daemon, app_state, call_sessions, app_welcomes, cli_mdk, bridge, acl_procs>>

\* app: build_gift_wrapped_signaling, behind initiate_call, accept_call,
\* reject_call, send_ice_candidate, end_call and send_call_state_update
build_gift_wrapped_signaling ==
    \E kind_num \in CallKinds :
        LET expiration == signaling.now + SignalingTtl IN
        Built(SignalingEvent("app", kind_num, signaling.now, TRUE, expiration))

\* CLI: gift_wrap_signaling over signaling_tags
gift_wrap_signaling ==
    \E kind_num \in CallKinds :
        LET expiration == signaling.now + SignalingTtl IN
        Built(SignalingEvent("cli", kind_num, signaling.now, TRUE, expiration))

\* app: build_group_call_signaling, whose tags are call-id and call-type
build_group_call_signaling ==
    \E kind_num \in CallKinds :
        Built(SignalingEvent("group", kind_num, signaling.now, FALSE, 0))

\* the expiry of the event has passed at the present clock reading
Expired(ev) == ev.has_expiration /\ signaling.now > ev.expiration

Received(ev, by) ==
    /\ Cardinality(signaling.received) < MaxReceived
    /\ signaling' = [signaling EXCEPT !.received =
                        @ \cup {[event |-> ev, by |-> by, expired |-> Expired(ev)]}]
    /\ UNCHANGED <<EngineVars, acl_file, env_owner_hex, env_owner_npub, audit_log,
                   stored_groups, daemon, daemon_log, msg_store, listen, listen_out,
                   created, published, decisions, read_out, media_state, mls_db, engine_daemon, app_state, call_sessions, app_welcomes, cli_mdk, bridge, acl_procs>>

\* app: the notification handler of listen_for_call_events for a gift wrap
\* that unwraps to a signaling kind: dropped when the expiration tag is
\* there and lies in the past, else added to the sink
listen_for_call_events ==
    \E ev \in signaling.built :
        /\ ev.path # "group"
        /\ IF ev.has_expiration /\ signaling.now > ev.expiration
           THEN UNCHANGED vars
           ELSE Received(ev, "listen_for_call_events")

\* app: process_call_event(event_json) returns the parsed event whenever the
\* kind is a signaling kind
process_call_event ==
    \E ev \in signaling.built :
        /\ ev.kind >= KIND_CALL_OFFER /\ ev.kind <= KIND_CALL_STATE_UPDATE
        /\ Received(ev, "process_call_event")

\* CLI: the notification handler of the call command for a gift wrap of this
\* call: the offer is answered, the end shuts the call down
CallOnSignaling ==
    \E ev \in signaling.built :
        /\ ev.path # "group"
        /\ ev.kind >= KIND_CALL_OFFER /\ ev.kind <= KIND_CALL_STATE_UPDATE
        /\ Received(ev, "call")

\* ------------------------------------------------- mls-engine main.rs, storage.rs
\* the stdin lines fed to the daemon: an empty line, text that is not JSON,
\* an unknown command name, and commands of handle_command
LineKinds == {"blank", "not json", "bogus", "ping", "create_group",
              "list_groups", "send_message"}

StdinLine(kind, group, mdk_ok) == [kind |-> kind, group |-> group, mdk_ok |-> mdk_ok]

\* with the group a command names and whether the MDK call it makes returns
\* Ok, for the commands that have either
StdinLines ==
    {StdinLine(kind, "g1", TRUE) : kind \in {"blank", "not json", "bogus", "ping"}}
        \cup {StdinLine("list_groups", "g1", mdk_ok) : mdk_ok \in BOOLEAN}
        \cup {StdinLine(kind, group, mdk_ok) :
                  kind \in {"create_group", "send_message"},
                  group \in Groups, mdk_ok \in BOOLEAN}

\* DaemonState::load_or_new: creates the directory and keeps the MDK
\* instance it was given
load_or_new(state_dir, fresh_mdk) == fresh_mdk

\* DaemonState::save: Ok(()) with nothing written
save(state_dir, groups) == state_dir

\* DaemonState::handle_command: the type of the response and the groups the
\* in-memory MDK holds afterwards
handle_command(line, groups) ==
    CASE line.kind = "create_group" ->
            IF line.mdk_ok
            THEN [type |-> "create_group_result", groups |-> groups \cup {line.group}]
            ELSE [type |-> "error", groups |-> groups]
      [] line.kind = "list_groups" ->
            [type |-> IF line.mdk_ok THEN "groups" ELSE "error", groups |-> groups]
      [] line.kind = "send_message" ->
            [type |-> IF line.group \in groups /\ line.mdk_ok
                      THEN "send_result" ELSE "error",
             groups |-> groups]
      [] line.kind = "ping" -> [type |-> "pong", groups |-> groups]
      [] OTHER -> [type |-> "error", groups |-> groups]

\* daemon_loop, one line: what is printed for it
LineResponses_skips_invalid(line, groups) ==
    IF line.kind \in {"blank", "not json"} THEN <<>>
    ELSE <<handle_command(line, groups).type>>

LineResponses(line, groups) ==
    IF line.kind = "blank" THEN <<>>
    ELSE IF line.kind = "not json" THEN <<"error">>
    ELSE <<handle_command(line, groups).type>>

EngineDaemonFrame ==
    UNCHANGED <<mls_db, acl_file, env_owner_hex, env_owner_npub, audit_log,
                stored_groups, daemon, daemon_log, msg_store, listen,
                listen_out, created, published, decisions, read_out,
                signaling, media_state, EngineVars, app_state, call_sessions, app_welcomes, cli_mdk, bridge, acl_procs>>

\* daemon_loop up to the ready line
EngineDaemonStart ==
    /\ ~engine_daemon.up
    /\ engine_daemon' = [engine_daemon EXCEPT
                            !.up = TRUE,
                            !.groups = load_or_new(engine_daemon.state_dir, {}),
                            !.stdin = <<>>,
                            !.stdout = <<"ready">>]
    /\ EngineDaemonFrame

\* daemon_loop, one iteration of the loop over stdin
EngineDaemonLine ==
    /\ engine_daemon.up
    /\ Len(engine_daemon.stdin) < MaxLines
    /\ \E line \in StdinLines :
          LET kind == line.kind
              groups == IF kind \in {"blank", "not json"}
                        THEN engine_daemon.groups
                        ELSE handle_command(line, engine_daemon.groups).groups
          IN engine_daemon' = [engine_daemon EXCEPT
                 !.stdin = Append(@, line),
                 !.stdout = @ \o LineResponses(line, engine_daemon.groups),
                 !.groups = groups,
                 !.made = @ \cup groups,
                 !.state_dir = IF kind \in {"blank", "not json"} THEN @
                               ELSE save(@, groups)]
    /\ EngineDaemonFrame

\* daemon_loop: stdin closes, the final save, the process ends
EngineDaemonStdinClosed ==
    /\ engine_daemon.up
    /\ engine_daemon' = [engine_daemon EXCEPT
                            !.up = FALSE,
                            !.state_dir = save(@, engine_daemon.groups),
                            !.groups = {}]
    /\ EngineDaemonFrame

\* ------------------------------------------------- api/state.rs, api/account.rs
NotInitialized == "Burrow not initialized. Call create_account or login first."

\* guard.is_some()
is_initialized(instance) == instance # NoneV

\* destroy_state: *guard = None
destroy_state_keeps(instance) == instance

destroy_state(instance) == NoneV

\* init_state: the instance afterwards; storage_ok is whether the data
\* directory is set and MdkSqliteStorage::new returned Ok
init_state(instance, keys, storage_ok) ==
    IF storage_ok THEN keys ELSE instance

StateOp(op, ok) == [op |-> op, ok |-> ok]

InitOps == {"create_account", "login", "init_state"}

AppStateFrame ==
    UNCHANGED <<engine_daemon, mls_db, acl_file, env_owner_hex, env_owner_npub,
                audit_log, stored_groups, daemon, daemon_log, msg_store,
                listen, listen_out, created, published, decisions, read_out,
                signaling, media_state, EngineVars, call_sessions, app_welcomes, cli_mdk, bridge, acl_procs>>

\* create_account (Keys::generate), init_state called directly, and login,
\* whose Keys::parse may reject the secret key before init_state is reached
AppInitialise ==
    /\ Len(app_state.history) < MaxStateOps
    /\ \E op \in InitOps, keys \in Keys, parse_ok \in BOOLEAN, storage_ok \in BOOLEAN :
          /\ op # "login" => parse_ok
          /\ app_state' =
                [instance |-> IF parse_ok
                              THEN init_state(app_state.instance, keys, storage_ok)
                              ELSE app_state.instance,
                 history |-> Append(app_state.history,
                                    StateOp(op, parse_ok /\ storage_ok)),
                 last_call |-> NoneV]
    /\ AppStateFrame

\* logout and destroy_state
AppDestroy ==
    /\ Len(app_state.history) < MaxStateOps
    /\ \E op \in {"logout", "destroy_state"} :
          app_state' = [instance |-> destroy_state(app_state.instance),
                        history |-> Append(app_state.history, StateOp(op, TRUE)),
                        last_call |-> NoneV]
    /\ AppStateFrame

\* with_state / with_state_mut with a closure that returns Ok
AppWithState ==
    /\ app_state' = [app_state EXCEPT
                        !.last_call = IF app_state.instance = NoneV
                                      THEN NotInitialized ELSE "Ok"]
    /\ AppStateFrame

\* ------------------------------------------------------ api/call_session.rs
CallIds == {"call-1", "call-2"}

\* enum CallState, by the strings update_session_state accepts
CallStates == {"idle", "initiating", "ringing", "connecting", "active",
               "ending", "failed", "rejected"}

\* the states in which started_at / ended_at are recorded
OverStates == {"ending", "failed", "rejected", "idle"}

\* the states of a call that is going on or being set up
LiveStates == {"initiating", "ringing", "connecting", "active"}

\* a session of the store; was_active, was_over and was_refused are what
\* update_session_state has made of it so far
CallSession(present, state, started_at, ended_at, was_active, was_over, was_refused) ==
    [present |-> present, state |-> state, started_at |-> started_at,
     ended_at |-> ended_at, was_active |-> was_active, was_over |-> was_over,
     was_refused |-> was_refused]

\* no entry for the call id
NoSession == CallSession(FALSE, "idle", {}, {}, FALSE, FALSE, FALSE)

CallFrame ==
    UNCHANGED <<app_state, engine_daemon, mls_db, acl_file, env_owner_hex,
                env_owner_npub, audit_log, stored_groups, daemon, daemon_log,
                msg_store, listen, listen_out, created, published, decisions,
                read_out, signaling, media_state, EngineVars, app_welcomes, cli_mdk, bridge, acl_procs>>

\* now_secs(): the clock does not go back
CallClock == {t \in call_sessions.now..MaxCallNow : TRUE}

\* create_session: inserts a session in Initiating (outgoing) or Ringing
\* (incoming), replacing what the store held for the call id
create_session ==
    \E call_id \in CallIds, direction \in {"outgoing", "incoming"}, t \in CallClock :
        /\ call_sessions' =
              [now |-> t,
               store |-> [call_sessions.store EXCEPT ![call_id] =
                             CallSession(TRUE,
                                         IF direction = "incoming" THEN "ringing"
                                         ELSE "initiating",
                                         {}, {}, FALSE, FALSE, FALSE)],
               result |-> "Ok"]
        /\ CallFrame

\* the timing milestones of update_session_state
started_at_always(session, new_state, t) ==
    IF new_state = "active" THEN {t} ELSE session.started_at

started_at_after(session, new_state, t) ==
    IF new_state = "active" /\ session.started_at = {} THEN {t}
    ELSE session.started_at

ended_at_after(session, new_state, t) ==
    IF new_state \in OverStates /\ session.ended_at = {} THEN {t}
    ELSE session.ended_at

update_session_state ==
    \E call_id \in CallIds, state \in CallStates \cup {"on hold"}, t \in CallClock :
        LET session == call_sessions.store[call_id] IN
        /\ call_sessions' =
              IF state \notin CallStates
              THEN [call_sessions EXCEPT !.now = t, !.result = "Unknown call state"]
              ELSE IF ~session.present
              THEN [call_sessions EXCEPT !.now = t, !.result = "Call session not found"]
              ELSE [now |-> t,
                    store |-> [call_sessions.store EXCEPT ![call_id] =
                                  CallSession(TRUE, state,
                                      started_at_after(session, state, t),
                                      ended_at_after(session, state, t),
                                      session.was_active \/ state = "active",
                                      session.was_over \/ state \in OverStates,
                                      session.was_refused \/ state \in {"failed", "rejected"})],
                    result |-> "Ok"]
        /\ CallFrame

\* remove_session
remove_session ==
    \E call_id \in CallIds, t \in CallClock :
        /\ call_sessions' = [now |-> t,
                             store |-> [call_sessions.store EXCEPT ![call_id] = NoSession],
                             result |-> "Ok"]
        /\ CallFrame

\* ------------------------------------------------ api/invite.rs sync_welcomes
\* the kind 1059 events addressed to the user that the relays hold
GiftWraps == {"gw1", "gw2", "gw3"}

AppWelcomeFrame ==
    UNCHANGED <<call_sessions, app_state, engine_daemon, mls_db, acl_file,
                env_owner_hex, env_owner_npub, audit_log, stored_groups,
                daemon, daemon_log, msg_store, listen, listen_out, created,
                published, decisions, read_out, signaling, media_state,
                EngineVars, cli_mdk, bridge, acl_procs>>

\* the count sync_welcomes keeps: one for every process_welcome that
\* returned Ok
welcome_count(processed_ok, known) == Cardinality(processed_ok)

\* process_welcome for one unwrapped rumor; mdk.process_welcome returns Ok
\* or Err
AppProcessWelcome ==
    \E w \in GiftWraps, process_ok \in BOOLEAN :
        /\ app_welcomes' = [app_welcomes EXCEPT
                               !.known = IF process_ok THEN @ \cup {w} ELSE @]
        /\ AppWelcomeFrame

\* sync_welcomes: of the gift wraps fetched, those that unwrap to a kind 444
\* rumor are handed to mdk.process_welcome; processed_ok are those for which
\* it returned Ok, which for a wrapper processed before is the stored welcome
sync_welcomes ==
    /\ app_welcomes.calls < MaxSyncs
    /\ \E fetched \in SUBSET GiftWraps :
          \E welcome_rumors \in SUBSET fetched :
             \E processed_ok \in SUBSET welcome_rumors :
                app_welcomes' =
                    [known |-> app_welcomes.known \cup processed_ok,
                     fetched |-> fetched,
                     returned |-> welcome_count(processed_ok, app_welcomes.known),
                     new_found |-> Cardinality(processed_ok \ app_welcomes.known),
                     calls |-> app_welcomes.calls + 1]
    /\ AppWelcomeFrame

\* --------------------------------- commands/group.rs, invite.rs, send.rs
\* the MLS group ids MDK gives to groups made by group create
CreatedGroups == {"g4", "g5", "g6"}

\* MDK::new(MdkMemoryStorage::default()): an instance that holds no group
MemoryGroups == {}

\* the groups whose MLS state mls.sqlite holds: those joined by accepting a
\* welcome
SqliteGroups == {WelcomeGroup(w) : w \in {x \in Wrappers : welcomes[x].state = "accepted"}}

CliMdkFrame ==
    UNCHANGED <<app_welcomes, call_sessions, app_state, engine_daemon, mls_db,
                acl_file, env_owner_hex, env_owner_npub, audit_log, daemon,
                daemon_log, msg_store, listen, listen_out, created, published,
                decisions, read_out, signaling, media_state, EngineVars, bridge, acl_procs>>

\* group create: the group is made in an instance over MdkMemoryStorage,
\* its metadata is saved to the file store, and the instance is dropped
\* when the command returns
GroupCreate ==
    \E g \in CreatedGroups \ stored_groups, create_ok \in BOOLEAN :
        /\ stored_groups' = IF create_ok THEN stored_groups \cup {g} ELSE stored_groups
        /\ cli_mdk' = [cli_mdk EXCEPT
                          !.created = IF create_ok THEN @ \cup {g} ELSE @]
        /\ CliMdkFrame

OpenedFor(cmd, g, groups) == [cmd |-> cmd, group |-> g, holds |-> g \in groups]

\* invite, up to add_members: a new instance over MdkMemoryStorage
InviteOpenMdk ==
    \E g \in stored_groups :
        /\ cli_mdk' = [cli_mdk EXCEPT
                          !.opened = @ \cup {OpenedFor("invite", g, MemoryGroups)}]
        /\ UNCHANGED stored_groups
        /\ CliMdkFrame

\* send, up to create_message: an instance over mls.sqlite
SendOpenMdk ==
    \E g \in stored_groups :
        /\ cli_mdk' = [cli_mdk EXCEPT
                          !.opened = @ \cup {OpenedFor("send", g, SqliteGroups)}]
        /\ UNCHANGED stored_groups
        /\ CliMdkFrame

\* ------------------------------------------------------- bridge/src/main.rs
\* daemon.jsonl is a sequence of pieces: the text of line i (an allowed
\* message entry) and the newline that ends it; a piece counts one in byte
\* offsets
LogPiece(i, newline) == [line |-> i, newline |-> newline]

BridgeFrame ==
    UNCHANGED <<cli_mdk, app_welcomes, call_sessions, app_state, engine_daemon,
                mls_db, acl_file, env_owner_hex, env_owner_npub, audit_log,
                stored_groups, daemon, daemon_log, msg_store, listen,
                listen_out, created, published, decisions, read_out,
                signaling, media_state, EngineVars, acl_procs>>

\* the daemon appends a line: in one write, or the text first and the
\* newline in a later write
LogAppend ==
    /\ bridge.written < MaxLogLines
    /\ IF bridge.file = <<>> THEN TRUE ELSE bridge.file[Len(bridge.file)].newline
    /\ \E whole \in BOOLEAN :
          bridge' = [bridge EXCEPT
              !.written = @ + 1,
              !.file = IF whole
                       THEN @ \o <<LogPiece(bridge.written + 1, FALSE),
                                   LogPiece(bridge.written + 1, TRUE)>>
                       ELSE Append(@, LogPiece(bridge.written + 1, FALSE))]
    /\ BridgeFrame

LogAppendRest ==
    /\ bridge.file # <<>>
    /\ ~bridge.file[Len(bridge.file)].newline
    /\ bridge' = [bridge EXCEPT
          !.file = Append(@, LogPiece(bridge.file[Len(bridge.file)].line, TRUE))]
    /\ BridgeFrame

\* the log is rotated: the file is emptied
LogTruncate ==
    /\ bridge.truncations < MaxTruncations
    /\ bridge.file # <<>>
    /\ bridge' = [bridge EXCEPT !.file = <<>>, !.truncations = @ + 1]
    /\ BridgeFrame

\* load_offset: the number in .bridge-offset
load_offset == bridge.offset_file

\* main, up to the loop
BridgeStart ==
    /\ ~bridge.up
    /\ bridge' = [bridge EXCEPT !.up = TRUE, !.pc = "idle", !.offset = load_offset,
                                !.pending = <<>>]
    /\ BridgeFrame

\* the bridge process is stopped, at any point of its loop
BridgeKill ==
    /\ bridge.up
    /\ bridge.restarts < MaxRestarts
    /\ bridge' = [bridge EXCEPT !.up = FALSE, !.pc = "idle", !.pending = <<>>,
                                !.read = {}, !.restarts = @ + 1]
    /\ BridgeFrame

\* read_line from start to the end of the file, then the parse of each
\* trimmed line: the lines that are whole entries (text and newline both in
\* the range read), in file order; a text without its newline does not parse
\* and a newline alone is an empty line
RECURSIVE LinesRead(_, _, _)
LinesRead(file, start, end) ==
    IF start > end THEN <<>>
    ELSE IF /\ ~file[start].newline
            /\ start + 1 <= end
            /\ file[start + 1].newline
         THEN <<file[start].line>> \o LinesRead(file, start + 2, end)
         ELSE LinesRead(file, start + 1, end)

\* one iteration of the loop, up to the processing of the lines read
BridgePoll ==
    /\ bridge.up
    /\ bridge.pc = "idle"
    /\ LET file_len == Len(bridge.file)
           offset == IF file_len < bridge.offset THEN 0 ELSE bridge.offset
       IN bridge' =
             IF file_len <= offset
             THEN [bridge EXCEPT !.offset = offset]
             ELSE [bridge EXCEPT
                      !.offset = offset,
                      !.new_offset = file_len,
                      !.pending = LinesRead(bridge.file, offset + 1, file_len),
                      !.read = {bridge.file[p] : p \in (offset + 1)..file_len},
                      !.pc = "processing"]
    /\ BridgeFrame

\* the next line read: chat_completion is called with it, and burrow send
\* if it answered; the loop goes on with the line after it either way
BridgeHandleLine ==
    /\ bridge.up
    /\ bridge.pc = "processing"
    /\ bridge.pending # <<>>
    /\ \E api_ok \in BOOLEAN, send_ok \in BOOLEAN :
          bridge' = [bridge EXCEPT
              !.handled[Head(bridge.pending)] = @ + 1,
              !.pending = Tail(@)]
    /\ BridgeFrame

\* save_offset: the number written to .bridge-offset
save_offset(offset) == offset

\* the end of the iteration: offset = new_offset; save_offset
BridgeSaveOffset ==
    /\ bridge.up
    /\ bridge.pc = "processing"
    /\ bridge.pending = <<>>
    /\ bridge' = [bridge EXCEPT
          !.offset = bridge.new_offset,
          !.offset_file = save_offset(bridge.new_offset),
          !.consumed = @ \cup bridge.read,
          !.read = {},
          !.pc = "idle"]
    /\ BridgeFrame

\* ------------------------------------- commands/acl.rs, two processes at once
\* two invocations of the acl command running at the same time
AclProcs == {"p1", "p2"}
AclOps == {"add_contact", "remove_contact", "add_group", "remove_group"}

\* a process that has not started
AclProcIdle == [pc |-> "idle", op |-> "none", arg |-> "", config |-> DefaultAclConfig]

\* AccessControl::load: the file's content (the file exists)
load(file) == file

\* AccessControl::save: the content written over the file
save_config(config) == config

\* everything the acl commands leave alone when run step by step
AclProcFrame ==
    UNCHANGED <<EngineVars, env_owner_hex, env_owner_npub, stored_groups, daemon, daemon_log,
                msg_store, listen, listen_out, created, published, decisions, read_out,
                signaling, media_state, mls_db, engine_daemon, app_state, call_sessions,
                app_welcomes, cli_mdk, bridge>>

\* the start of a command: the argument is resolved, then the file is loaded
AclProcLoad ==
    \E p \in AclProcs, op \in AclOps, input \in PubkeyInputs \cup GroupInputs :
        LET arg == IF op \in {"add_contact", "remove_contact"}
                   THEN resolve_to_hex(input) ELSE input
        IN
        /\ acl_procs[p].pc = "idle"
        /\ op \in {"add_contact", "remove_contact"} => input \in PubkeyInputs
        /\ op \in {"add_group", "remove_group"} => input \in GroupInputs
        /\ arg # NoneV
        /\ acl_procs' = [acl_procs EXCEPT ![p] =
               [pc |-> "loaded", op |-> op, arg |-> arg, config |-> load(acl_file)]]
        /\ UNCHANGED <<acl_file, audit_log>>
        /\ AclProcFrame

\* the rest of a command: the loaded config is changed, saved when it
\* changed, and the change is written to the audit log
AclProcFinish(p, op, after, saved, logged) ==
    /\ acl_procs[p].pc = "loaded"
    /\ acl_procs[p].op = op
    /\ logged => Len(audit_log) < MaxAudit
    /\ acl_procs' = [acl_procs EXCEPT ![p].pc = "done", ![p].config = after]
    /\ acl_file' = IF saved THEN save_config(after) ELSE acl_file
    /\ audit_log' = IF logged
                    THEN log_access_change(audit_log, <<op, acl_procs[p].arg>>)
                    ELSE audit_log
    /\ AclProcFrame

AclProcAddContact ==
    \E p \in AclProcs :
        LET after == add_contact(acl_procs[p].config, acl_procs[p].arg) IN
        AclProcFinish(p, "add_contact", after, after # acl_procs[p].config, TRUE)

AclProcRemoveContact ==
    \E p \in AclProcs :
        LET r == remove_contact(acl_procs[p].config, acl_procs[p].arg) IN
        AclProcFinish(p, "remove_contact", r.config, r.removed, r.removed)

AclProcAddGroup ==
    \E p \in AclProcs :
        LET after == add_group(acl_procs[p].config, acl_procs[p].arg) IN
        AclProcFinish(p, "add_group", after, after # acl_procs[p].config, TRUE)

AclProcRemoveGroup ==
    \E p \in AclProcs :
        LET r == remove_group(acl_procs[p].config, acl_procs[p].arg) IN
        AclProcFinish(p, "remove_group", r.config, r.removed, r.removed)

\* ---------------------------------------------------------------- keyring.rs
\* the domain separation string of the database key
HKDF_DOMAIN == "burrow-cli-mls-db-encryption-v1"

\* SHA-256(domain || secret key bytes)
derive_db_key(keys) == <<HKDF_DOMAIN, keys>>

\* MdkSqliteStorage::new_unencrypted: no database key
NoKey == <<>>

\* Opening creates the file when it is missing, with the key of this open.
\* What the storage library makes of a file written under another key is
\* its own affair: either outcome is allowed. On Err the command ends.
OpenStore(cmd, key) ==
    \E ok \in IF mls_db.exists /\ mls_db.key # key THEN BOOLEAN ELSE {TRUE} :
        /\ mls_db' = [exists |-> TRUE,
                      key |-> IF mls_db.exists THEN mls_db.key ELSE key,
                      opens |-> mls_db.opens \cup
                                  {[cmd |-> cmd, key |-> key, ok |-> ok]}]
        /\ UNCHANGED <<acl_file, env_owner_hex, env_owner_npub, audit_log,
                       stored_groups, daemon, daemon_log, msg_store, listen,
                       listen_out, created, published, decisions, read_out,
                       signaling, media_state, EngineVars, engine_daemon, app_state, call_sessions, app_welcomes, cli_mdk, bridge, acl_procs>>

\* keyring::open_mls_storage(&mls_db_path, &keys)
open_mls_storage(cmd, keys) == OpenStore(cmd, derive_db_key(keys))

\* daemon.rs: MdkSqliteStorage::new_unencrypted(&mls_db_path)
DaemonOpenStore == OpenStore("daemon", NoKey)

\* read.rs: MdkSqliteStorage::new_unencrypted(&mls_db_path)
ReadOpenStore == OpenStore("read", NoKey)

\* welcome.rs list: MdkSqliteStorage::new_unencrypted(&mls_db_path)
WelcomeListOpenStore == OpenStore("welcome list", NoKey)

\* welcome.rs accept: MdkSqliteStorage::new_unencrypted(&mls_db_path)
WelcomeAcceptOpenStore == OpenStore("welcome accept", NoKey)

\* listen.rs: keyring::open_mls_storage
ListenOpenStore == open_mls_storage("listen", Identity)

\* send.rs run: keyring::open_mls_storage
SendOpenStore == open_mls_storage("send", Identity)

\* send.rs typing: keyring::open_mls_storage
TypingOpenStore == open_mls_storage("typing", Identity)

\* ---------------------------------------------------- commands/invite.rs
\* the created_at of the kind 443 events the relays hold for the invitee
KeyPackageTimes == 1..MaxKeyPackages

\* max_by_key(|e| e.created_at), the selection the app's fetch_key_package makes
Max(S) == CHOOSE x \in S : \A y \in S : y <= x

\* invite <group> <invitee>: the key package is fetched, then add_members is
\* called on an MDK over a new, empty MdkMemoryStorage, which holds no group:
\* the command ends there, before it publishes or merges anything.
\* welcomes_sent counts the gift-wrapped welcomes the run handed to
\* client.send_event: the loop over the welcome rumors only prints
\* The key package is the first event of what fetch_events returned for a
\* filter with limit(1); which of the relays' events that is, is the
\* library's choice.
InviteRun ==
    \E g \in stored_groups, fetched \in SUBSET KeyPackageTimes :
        \E kp_event \in IF fetched = {} THEN {0} ELSE fetched :
            LET kp_found == fetched # {} IN
            /\ invite_out' = [kp_found |-> kp_found,
                               end |-> IF kp_found THEN "Failed to add member"
                                       ELSE "No KeyPackage found",
                               welcomes_sent |-> 0,
                               kp_created_at |-> kp_event,
                               newest_fetched |-> Max(fetched \cup {0})]
        /\ UNCHANGED <<mdk, commit_events, relay_acks, merge_log, responses, welcomes, state_lock, CliVars>>

\* ------------------------------------------------------------ specifications
\* access-control.json as a user may have written it: no owner, an owner
\* alone, an owner with an allowed contact and an allowed group
AclConfigs ==
    {[owner_hex |-> b[1], allowed_contacts |-> b[2], allowed_groups |-> b[3],
      log_rejected_content |-> l, audit_enabled |-> a] :
        b \in {<<"", <<>>, <<>>>>, <<"aa", <<>>, <<>>>>, <<"aa", <<"cc">>, <<"n2">>>>},
        l \in BOOLEAN, a \in BOOLEAN}

InitEngine ==
    /\ mdk = [m \in Members |-> [epoch |-> 0, pending |-> 0]]
    /\ commit_events = {}
    /\ relay_acks = {}
    /\ merge_log = {}
    /\ responses = [m \in Members |-> NoResponse]
    /\ invite_out = [kp_found |-> FALSE, end |-> NoneV, welcomes_sent |-> 0,
                     kp_created_at |-> 0, newest_fetched |-> 0]
    /\ welcomes = [w \in Wrappers |-> [state |-> "none", repeat_changed |-> FALSE,
                                        last_run |-> 0, replayed |-> FALSE]]
    /\ state_lock = [readers |-> [c \in Callers |-> NoneV],
                     writer |-> FALSE,
                     processed |-> [c \in Callers |-> 0]]

InitRest ==
    /\ InitEngine
    /\ audit_log = <<>>
    /\ daemon = DaemonDown
    /\ daemon_log = <<>>
    /\ msg_store = {}
    /\ listen = ListenDown
    /\ listen_out = {}
    /\ created = {}
    /\ published = {}
    /\ decisions = 0
    /\ read_out = <<>>
    /\ signaling = [now |-> 0, built |-> {}, received |-> {}]
    /\ media_state = [parsed |-> {}, handed |-> {}]
    /\ mls_db = [exists |-> FALSE, key |-> NoKey, opens |-> {}]
    /\ acl_procs = [p \in AclProcs |-> AclProcIdle]
    /\ bridge = [file |-> <<>>, written |-> 0, offset_file |-> 0, up |-> FALSE, pc |-> "idle", offset |-> 0, new_offset |-> 0, pending |-> <<>>, handled |-> [i \in 1..MaxLogLines |-> 0], consumed |-> {}, read |-> {}, restarts |-> 0, truncations |-> 0]
    /\ cli_mdk = [created |-> {}, opened |-> {}]
    /\ app_welcomes = [known |-> {}, fetched |-> {}, returned |-> 0, new_found |-> 0, calls |-> 0]
    /\ call_sessions = [now |-> 1, store |-> [c \in CallIds |-> NoSession], result |-> NoneV]
    /\ app_state = [instance |-> NoneV, history |-> <<>>, last_call |-> NoneV]
    /\ engine_daemon = [up |-> FALSE, groups |-> {}, state_dir |-> {}, made |-> {}, stdin |-> <<>>, stdout |-> <<>>]

\* the access-control commands, under every owner override of the environment
InitAcl ==
    /\ acl_file \in {c \in AclConfigs : c.audit_enabled /\ ~c.log_rejected_content}
    /\ env_owner_hex \in {Unset, "", "bb"}
    /\ env_owner_npub \in {Unset, "npub1cc", "nsec1cc"}
    /\ stored_groups = Groups
    /\ InitRest

NextAcl == AclAddContact \/ AclRemoveContact \/ AclAddGroup \/ AclRemoveGroup

SpecAcl == InitAcl /\ [][NextAcl]_vars

\* two acl commands started against an existing access-control.json
InitAclProcs ==
    /\ acl_file \in {c \in AclConfigs : c.audit_enabled /\ ~c.log_rejected_content}
    /\ env_owner_hex = Unset
    /\ env_owner_npub = Unset
    /\ stored_groups = Groups
    /\ InitRest

NextAclProcs ==
    \/ AclProcLoad
    \/ AclProcAddContact
    \/ AclProcRemoveContact
    \/ AclProcAddGroup
    \/ AclProcRemoveGroup

SpecAclProcs == InitAclProcs /\ [][NextAclProcs]_vars

\* receiving: the daemon and the listen command
InitInbound ==
    /\ acl_file \in AclConfigs
    /\ env_owner_hex = Unset
    /\ env_owner_npub = Unset
    /\ stored_groups \in {{}, Groups}
    /\ InitRest

NextInbound ==
    \/ DaemonStart \/ DaemonStop \/ DaemonOnApplicationMessage
    \/ ListenStart \/ ListenStop \/ ListenOnEvent

SpecInbound == InitInbound /\ [][NextInbound]_vars

\* sending: send and typing
InitOutbound ==
    /\ acl_file \in AclConfigs
    /\ env_owner_hex \in {Unset, "bb"}
    /\ env_owner_npub = Unset
    /\ stored_groups = Groups
    /\ InitRest

NextOutbound == SendRun \/ TypingRun

SpecOutbound == InitOutbound /\ [][NextOutbound]_vars

\* everything that decides on or changes access: the daemon's receive path,
\* send, and the acl commands
InitAudit ==
    /\ acl_file \in {c \in AclConfigs : ~c.log_rejected_content}
    /\ env_owner_hex = Unset
    /\ env_owner_npub = Unset
    /\ stored_groups = Groups
    /\ InitRest

NextAudit ==
    \/ DaemonStart \/ DaemonOnApplicationMessage \/ SendRun
    \/ AclAddContact \/ AclRemoveContact \/ AclAddGroup \/ AclRemoveGroup

SpecAudit == InitAudit /\ [][NextAudit]_vars

\* the group engine: two members, commits, publishing, merging, processing
InitEngineSpec ==
    /\ acl_file = DefaultAclConfig
    /\ env_owner_hex = Unset
    /\ env_owner_npub = Unset
    /\ stored_groups = Groups
    /\ InitRest

NextEngine ==
    \/ AppAddMembers \/ AppRemoveMembers \/ AppUpdateGroupName
    \/ AppMergePendingCommit \/ AppPublishEventJson \/ AppProcessMessage
    \/ EngineAddMembers \/ EngineMergePendingCommit \/ EngineProcessMessage
    \/ InviteRun

SpecEngine == InitEngineSpec /\ [][NextEngine]_vars

\* welcomes: the daemon's gift-wrap handler and the welcome commands
InitWelcome ==
    /\ acl_file = DefaultAclConfig
    /\ env_owner_hex = Unset
    /\ env_owner_npub = Unset
    /\ stored_groups = Groups
    /\ InitRest

NextWelcome ==
    \/ DaemonStart \/ DaemonStop \/ DaemonOnGiftWrap
    \/ WelcomeListRun \/ WelcomeAcceptRun

SpecWelcome == InitWelcome /\ [][NextWelcome]_vars

\* the app's state lock and the callers of process_message
InitLock == InitWelcome

NextLock ==
    \/ AppProcessMessageBegin \/ AppProcessMessageEnd
    \/ SyncProcessBegin \/ SyncProcessEnd
    \/ ListenProcessBegin \/ ListenProcessEnd
    \/ WithStateMutBegin \/ WithStateMutEnd

SpecLock == InitLock /\ [][NextLock]_vars

\* the message store as the daemon and listen fill it and read lists it
InitRead == InitWelcome

NextRead ==
    \/ DaemonStart \/ DaemonStop \/ DaemonOnApplicationMessage \/ DaemonOnDecryptError
    \/ ListenStart \/ ListenStop \/ ListenOnEvent
    \/ ReadRun

SpecRead == InitRead /\ [][NextRead]_vars

\* the daemon's notification loop: every kind of event it handles
InitDaemon ==
    /\ acl_file \in {c \in AclConfigs : c.audit_enabled /\ ~c.log_rejected_content}
    /\ env_owner_hex = Unset
    /\ env_owner_npub = Unset
    /\ stored_groups = Groups
    /\ InitRest

NextDaemon ==
    \/ DaemonStart \/ DaemonStop
    \/ DaemonOnApplicationMessage \/ DaemonOnDecryptError \/ DaemonOnGiftWrap

SpecDaemon == InitDaemon /\ [][NextDaemon]_vars

\* call signaling: the builders and the receivers
InitSignaling == InitWelcome

NextSignaling ==
    \/ Tick
    \/ build_gift_wrapped_signaling \/ gift_wrap_signaling \/ build_group_call_signaling
    \/ listen_for_call_events \/ process_call_event \/ CallOnSignaling

SpecSignaling == InitSignaling /\ [][NextSignaling]_vars

\* encrypted media: the parsers and the downloads
InitMedia == InitWelcome

NextMedia == AppParseImetaTag \/ download_media \/ auto_download_attachments

SpecMedia == InitMedia /\ [][NextMedia]_vars

\* the MLS database of the data directory, as the commands open it
InitStore == InitWelcome

NextStore ==
    \/ DaemonOpenStore
    \/ ReadOpenStore
    \/ WelcomeListOpenStore
    \/ WelcomeAcceptOpenStore
    \/ ListenOpenStore
    \/ SendOpenStore
    \/ TypingOpenStore

SpecStore == InitStore /\ [][NextStore]_vars

\* the burrow-mls daemon over its stdin, across restarts
InitEngineDaemon == InitWelcome

NextEngineDaemon == EngineDaemonStart \/ EngineDaemonLine \/ EngineDaemonStdinClosed

SpecEngineDaemon == InitEngineDaemon /\ [][NextEngineDaemon]_vars

\* the app's global state under initialisations, destructions and uses
InitAppState == InitWelcome

NextAppState == AppInitialise \/ AppDestroy \/ AppWithState

SpecAppState == InitAppState /\ [][NextAppState]_vars

\* the call session store
InitCallSessions == InitWelcome

NextCallSessions == create_session \/ update_session_state \/ remove_session

SpecCallSessions == InitCallSessions /\ [][NextCallSessions]_vars

\* the app's catch-up sync of welcomes
InitSync == InitWelcome

NextSync == AppProcessWelcome \/ sync_welcomes

SpecSync == InitSync /\ [][NextSync]_vars

\* the listen command alone, with as many events as fill its dedup set
InitListen ==
    /\ acl_file = DefaultAclConfig
    /\ env_owner_hex = Unset
    /\ env_owner_npub = Unset
    /\ stored_groups = Groups
    /\ InitRest

NextListen == ListenStart \/ ListenStop \/ ListenOnEvent \/ ListenOnOtherEvents

SpecListen == InitListen /\ [][NextListen]_vars

\* groups made by group create, and the commands that use them
InitGroupCreate ==
    /\ acl_file = DefaultAclConfig
    /\ env_owner_hex = Unset
    /\ env_owner_npub = Unset
    /\ stored_groups = {}
    /\ InitRest

NextGroupCreate == GroupCreate \/ InviteOpenMdk \/ SendOpenMdk

SpecGroupCreate == InitGroupCreate /\ [][NextGroupCreate]_vars

\* the bridge following the daemon log
InitBridge == InitWelcome

NextBridge ==
    \/ LogAppend \/ LogAppendRest \/ LogTruncate
    \/ BridgeStart \/ BridgeKill
    \/ BridgePoll \/ BridgeHandleLine \/ BridgeSaveOffset

SpecBridge == InitBridge /\ [][NextBridge]_vars

\* ------------------------------------------------------------------ claims
\* C1: a pending commit is merged only after at least one relay has
\* acknowledged its kind 445 event
C1_MergeOnlyAfterAck ==
    \A x \in merge_log : x.acked

\* C3: each member holds at most one pending commit (one slot), and a pending
\* commit ends only by a merge made after a relay acknowledged it or by being
\* discarded: no step ends a pending commit by a merge without acknowledgement
C3_PendingEndsMergedAfterAckOrDiscarded ==
    [][\A m \in Members :
          (/\ mdk[m].pending # 0
           /\ mdk'[m].pending = 0
           /\ merge_log' # merge_log)
              => Acked(mdk[m].pending)]_vars

\* C4: a member that holds a pending commit for epoch e and processes another
\* member's commit for e, which is applied, is notified with RetryNeeded
C4_ConflictNotifiesRetryNeeded ==
    \A m \in Members :
        (responses[m].conflict /\ responses[m].applied)
            => responses[m].result_type = "RetryNeeded"

\* C5: of two commits for the same epoch the one with the smaller event id
\* wins: the member whose own pending commit has the larger id receives
\* RetryNeeded when the smaller one is applied
C5_LoserReceivesRetryNeeded ==
    \A m \in Members :
        (responses[m].loser /\ responses[m].applied)
            => responses[m].result_type = "RetryNeeded"

\* the group arguments is_allowed is asked about: the nostr group ids and the
\* empty string the daemon passes for a group it did not load
AskedGroups == {"n1", "n2", ""}

\* C7: a message whose sender the ACL denies for its group is never written
\* to the message store and never printed, on any receive path (daemon, listen)
C7_InboundDeniedNeverStored ==
    /\ \A m \in msg_store : m.acl_ok
    /\ \A o \in listen_out : o.acl_ok

\* C8: every MLS message created and every event published by send or typing
\* passed the ACL check made with the local identity
C8_OutboundDeniedNeverCreated ==
    \A e \in created \cup published : e.acl_ok

\* C9: after any sequence of add/remove contact/group commands, is_allowed is
\* true iff the owner is empty, or the sender is the owner, or the sender is an
\* allowed contact, or the group is an allowed group
C9_IsAllowedFunctional ==
    \A s \in Keys, g \in AskedGroups :
        is_allowed(acl_file, s, g) =
            (\/ owner_hex(acl_file) = ""
             \/ s = owner_hex(acl_file)
             \/ s \in RangeOf(acl_file.allowed_contacts)
             \/ g \in RangeOf(acl_file.allowed_groups))

\* C9 happens: commands have run, the owner is set, a stranger is denied for
\* one group while somebody who is not the owner is allowed
C9_Witness ==
    /\ Len(audit_log) = MaxAudit
    /\ owner_hex(acl_file) # ""
    /\ \E s \in Keys, g \in AskedGroups : ~is_allowed(acl_file, s, g)
    /\ \E s \in Keys, g \in AskedGroups :
           s # owner_hex(acl_file) /\ is_allowed(acl_file, s, g)

\* the entries of kind message in the audit log
AuditMessageCount ==
    Cardinality({i \in DOMAIN audit_log : audit_log[i].type = "message"})

\* C10: while audit-enabled is true, every ACL decision on a message (inbound
\* or outbound) has appended exactly one audit entry of kind message
C10_OneAuditEntryPerDecision ==
    acl_file.audit_enabled => AuditMessageCount = decisions

\* C11: while audit-enabled is false nothing is appended to the audit log,
\* neither by message decisions nor by the acl commands
C11_NoAuditWhenDisabled ==
    ~acl_file.audit_enabled => audit_log = <<>>

\* C12: the audit entry of a rejected message omits the content when
\* log-rejected-content is false and carries it when log-rejected-content is true
C12_RejectedContentFollowsSetting ==
    \A i \in DOMAIN audit_log :
        (audit_log[i].type = "message" /\ ~audit_log[i].allowed)
            => ((audit_log[i].details # NoneV) = acl_file.log_rejected_content)

\* C13: handling a gift wrap whose wrapper id has been processed before
\* changes neither the stored welcomes and their states nor the stored groups
C13_ReprocessWelcomeNoOp ==
    \A w \in Wrappers : ~welcomes[w].repeat_changed

\* C17: a run of the invite command that found the invitee's key package
\* has sent exactly one gift-wrapped welcome to the invitee
C17_InviteeReceivesOneWelcome ==
    invite_out.kp_found => invite_out.welcomes_sent = 1

\* C18: no two callers run mdk.process_message for the same group at the
\* same time
C18_ProcessMessageSerialised ==
    \A c1 \in Callers, c2 \in Callers :
        (c1 # c2 /\ state_lock.readers[c1] # NoneV)
            => state_lock.readers[c1] # state_lock.readers[c2]

\* C19: however often a message has been received, by the daemon and by
\* listen, the store holds at most one record for its inner event id
C19_OneRecordPerEventId ==
    \A msg \in Messages :
        Cardinality({x \in msg_store : x.event_id_hex = msg.id}) <= 1

\* message m2 was received and stored by the daemon and then received by
\* listen, and the store holds one record for it
C19_Witness ==
    /\ \E i \in DOMAIN daemon_log :
           daemon_log[i].type = "message" /\ daemon_log[i].content = "hi"
    /\ \E l \in listen_out : l.content = "hi"
    /\ \E x \in msg_store : x.event_id_hex = "m2" /\ x.by = "listen"
    /\ Cardinality({x \in msg_store : x.event_id_hex = "m2"}) = 1

\* C20: the read command prints the messages of a group in ascending order
\* of inner timestamp, and messages with equal timestamps in ascending order
\* of inner event id
C20_PresentedInTimestampThenIdOrder ==
    \A i \in DOMAIN read_out, j \in DOMAIN read_out :
        i < j => \/ read_out[i].created_at < read_out[j].created_at
                 \/ /\ read_out[i].created_at = read_out[j].created_at
                    /\ IdRank(read_out[i].event_id_hex) < IdRank(read_out[j].event_id_hex)

\* C21: no typing-indicator message (kind 10000) is in the message store,
\* and none is in a message line of the daemon's log
C21_TypingNeverPersisted ==
    /\ \A x \in msg_store : \A msg \in Messages :
           msg.id = x.event_id_hex => msg.kind # TYPING_INDICATOR_KIND
    /\ \A i \in DOMAIN daemon_log : \A msg \in Messages :
           (daemon_log[i].type = "message" /\ daemon_log[i].content = msg.content)
               => msg.kind # TYPING_INDICATOR_KIND

\* C22: a gift wrap the daemon reported in one run is not reported again by
\* a later run, after the daemon has subscribed anew
C22_NoReplayAfterResubscribe ==
    \A w \in Wrappers : ~welcomes[w].replayed

\* C23: a step in which the daemon reports a decrypt error appends that one
\* line and nothing else, and leaves the daemon running with the ACL and
\* groups it had
C23_DecryptErrorKeepsDaemonRunning ==
    [][(/\ Len(daemon_log') > Len(daemon_log)
        /\ daemon_log'[Len(daemon_log')].type = "decrypt_error")
       => (/\ daemon.up
           /\ daemon' = daemon
           /\ daemon_log' = Append(daemon_log, daemon_log'[Len(daemon_log')])
           /\ msg_store' = msg_store)]_vars

\* after a decrypt error the daemon, still running, has handled the next
\* message
C23_Witness ==
    /\ daemon.up
    /\ \E i \in DOMAIN daemon_log, j \in DOMAIN daemon_log :
           /\ i < j
           /\ daemon_log[i].type = "decrypt_error"
           /\ daemon_log[j].type = "message"
    /\ msg_store # {}

\* C24: no receiver hands on or acts on a signaling event whose expiry had
\* passed when it was received
C24_ExpiredSignalingDropped ==
    \A r \in signaling.received : ~r.expired

\* C25: every signaling event built has an expiration tag, equal to its
\* creation time plus 60 seconds
C25_SignalingCarriesExpiry ==
    \A ev \in signaling.built :
        ev.has_expiration /\ ev.expiration = ev.created_at + SignalingTtl

\* C26: no body whose SHA-256 differs from the hash that is the last segment
\* of its URL is handed to decryption
C26_MismatchedBodyNeverDecrypted ==
    \A h \in media_state.handed : h.url_form = "hash" => h.body_matches

\* C27: every media reference handed to decryption has a 32-byte original
\* hash, a 12-byte nonce and the scheme version mip04-v2
C27_MediaReferenceWellFormed ==
    \A h \in media_state.handed :
        /\ h.hash_len = HashLen
        /\ h.nonce_len = NonceLen
        /\ h.scheme_version = SchemeVersion

\* C28: the key package an invite uses has the greatest created_at among
\* the key package events fetched for the invitee
C28_NewestKeyPackageSelected ==
    invite_out.kp_found => invite_out.kp_created_at = invite_out.newest_fetched

\* C30: every command that opens the persistent MLS store opens it with the
\* key derived from the local identity's secret key, and the store is never
\* created without that key
C30_StoreOpenedWithIdentityKey ==
    /\ \A o \in mls_db.opens : o.key = derive_db_key(Identity)
    /\ mls_db.exists => mls_db.key = derive_db_key(Identity)

\* C31: the groups that commands produced in one run of the burrow-mls
\* daemon are held by the daemon after it is restarted with the same state
\* directory
C31_StatePersistsAcrossRestarts ==
    engine_daemon.up => engine_daemon.made \subseteq engine_daemon.groups

NonEmptyLines(lines) == SelectSeq(lines, LAMBDA l : l.kind # "blank")

WithStateFailsIffUninitialised ==
    app_state.last_call # NoneV =>
        (app_state.last_call = NotInitialized <=> ~is_initialized(app_state.instance))

\* C33: is_initialized is true exactly when the most recent initialisation or
\* destruction was a successful initialisation, and with_state and
\* with_state_mut fail with the not-initialized error exactly when it is false
C33_InitialisedIffLastOpSuccessfulInit ==
    /\ is_initialized(app_state.instance) <=>
          (/\ app_state.history # <<>>
           /\ app_state.history[Len(app_state.history)].op \in InitOps
           /\ app_state.history[Len(app_state.history)].ok)
    /\ WithStateFailsIffUninitialised

\* the operations that returned Ok: a failed initialisation returns before
\* the global state is written
Effective(history) == SelectSeq(history, LAMBDA o : o.ok)

\* C33, amended: is_initialized is true exactly when the most recent of the
\* initialisations and destructions that succeeded was an initialisation, and
\* with_state and with_state_mut fail exactly when it is false
C33_InitialisedIffLastEffectiveOpInit ==
    /\ is_initialized(app_state.instance) <=>
          (/\ Effective(app_state.history) # <<>>
           /\ Effective(app_state.history)[Len(Effective(app_state.history))].op \in InitOps)
    /\ WithStateFailsIffUninitialised

\* initialised, destroyed, initialised again with another key, then a login
\* that failed, and with_state returned Ok
C33_Witness ==
    /\ Len(app_state.history) = 4
    /\ app_state.history[1].ok /\ app_state.history[1].op \in InitOps
    /\ app_state.history[2].op = "destroy_state"
    /\ app_state.history[3].ok /\ app_state.history[3].op \in InitOps
    /\ app_state.history[4].op = "login" /\ ~app_state.history[4].ok
    /\ is_initialized(app_state.instance)
    /\ app_state.last_call = "Ok"

\* C34: through any sequence of update_session_state calls, started_at of a
\* session is unset until the first transition to Active, is set at that
\* transition and never changes afterwards; ended_at is unset until the first
\* transition to Ending, Failed, Rejected or Idle, is set at that transition
\* and never changes afterwards
C34_MilestonesSetOnceAtTransition ==
    [][\A c \in CallIds :
          LET old == call_sessions.store[c]
              new == call_sessions'.store[c]
          IN new.present =>
                /\ new.started_at # {} <=> new.was_active
                /\ new.ended_at # {} <=> new.was_over
                /\ (old.started_at = {} /\ new.started_at # {}) =>
                      (new.state = "active" /\ new.started_at = {call_sessions'.now})
                /\ (old.ended_at = {} /\ new.ended_at # {}) =>
                      (new.state \in OverStates /\ new.ended_at = {call_sessions'.now})
                /\ (old.started_at # {} /\ new.started_at # {}) =>
                      new.started_at = old.started_at
                /\ (old.ended_at # {} /\ new.ended_at # {}) =>
                      new.ended_at = old.ended_at]_vars

\* a session made Active in second 1, ended in second 2 and made Active
\* again in second 2
C34_Witness ==
    \E c \in CallIds :
        /\ call_sessions.store[c].present
        /\ call_sessions.store[c].state = "active"
        /\ call_sessions.store[c].started_at = {1}
        /\ call_sessions.store[c].ended_at = {2}
        /\ call_sessions.now = 2

\* C39: a session that update_session_state has put in Failed or Rejected is
\* never afterwards in Initiating, Ringing, Connecting or Active
C39_NoRevivalAfterFailedOrRejected ==
    \A c \in CallIds :
        (call_sessions.store[c].present /\ call_sessions.store[c].was_refused)
            => call_sessions.store[c].state \notin LiveStates

\* C35: sync_welcomes returns the number of welcomes that the local store did
\* not hold before the call
C35_SyncReturnsCountOfNewWelcomes ==
    app_welcomes.returned = app_welcomes.new_found

\* C36: during one run of the listen command no outer event id is handed to
\* process_message more than once
C36_EachEventProcessedOnce ==
    ~listen.twice

\* C37: for every group recorded by group create, the MLS engine instance
\* that invite or send opens for it holds the group's MLS state
C37_CreatedGroupUsable ==
    \A o \in cli_mdk.opened : o.group \in cli_mdk.created => o.holds

\* a line whose text and newline the bridge has both read past, in an
\* iteration that has ended, with no agent request issued for it
BridgeSkipped(i) ==
    /\ bridge.pc = "idle"
    /\ LogPiece(i, FALSE) \in bridge.consumed
    /\ LogPiece(i, TRUE) \in bridge.consumed
    /\ bridge.handled[i] = 0

AclList(config, op) ==
    IF op \in {"add_contact", "remove_contact"}
    THEN config.allowed_contacts ELSE config.allowed_groups

\* the command's change is in the config: an added entry is listed, a
\* removed entry is not
MutationPresent(proc, config) ==
    IF proc.op \in {"add_contact", "add_group"}
    THEN AnyEq(AclList(config, proc.op), proc.arg)
    ELSE ~AnyEq(AclList(config, proc.op), proc.arg)

\* two commands that add and remove the same entry of the same list
Opposed(a, b) ==
    /\ a.arg = b.arg
    /\ a.op # b.op
    /\ AclList(DefaultAclConfig, a.op) = AclList(DefaultAclConfig, b.op)
    /\ {a.op, b.op} \in {{"add_contact", "remove_contact"}, {"add_group", "remove_group"}}

\* C40: when two acl commands have both finished, the stored access control
\* list holds the change of each of them (unless the other command undid
\* exactly that change): no update is lost.
C40_NoUpdateLost ==
    (\A p \in AclProcs : acl_procs[p].pc = "done") =>
        \A p \in AclProcs : \A q \in AclProcs \ {p} :
            Opposed(acl_procs[p], acl_procs[q]) \/ MutationPresent(acl_procs[p], acl_file)

====
